---------------------------- MODULE Spec2Model ----------------------------
(***************************************************************************)
(* County reconciliation and layer pipeline of the Illinois data-centre    *)
(* impact map: src/src/make_map.py, app/streamlit_app.py,                  *)
(* src/src/mapping/build_map.py and src/src/utils/io.py.                   *)
(*                                                                         *)
(* Text values (identifiers, column labels, cells) are sequences of        *)
(* one-character strings, so that strip / replace / zfill / startswith     *)
(* act on characters exactly as the Python string methods do.              *)
(***************************************************************************)
EXTENDS Integers, Sequences, FiniteSets, TLC

VARIABLES
    \* --- identifier normalizer bench (_coerce_fips on one series value)
    fips_in,        \* the raw value of the series element
    fips_once,      \* _coerce_fips(series)
    fips_twice,     \* _coerce_fips(_coerce_fips(series))
    fips_pc,        \* "idle" | "in" | "once" | "twice"
    \* --- column deduplicator bench (_make_unique_columns)
    cols_in,        \* the labels handed to _make_unique_columns
    cols_out,       \* its result
    cols_pc,        \* "idle" | "in" | "out" | "found"
    cols_found,     \* [base, cols, names, result]: one _find_col lookup
    \* --- score bench (_minmax, _compute_impact_score on one county table)
    sc_in,          \* the county table handed in
    sc_mm,          \* [col, out]: _minmax(sc_in[col])
    sc_out,         \* the table _compute_impact_score returns
    sc_pc,          \* "idle" | "in" | "minmax" | "scored"
    \* --- the reconciliation pipeline of one run
    entry,          \* "make_map" | "streamlit"
    show_context_layers,    \* the Streamlit checkbox
    disk,           \* which mandatory files exist, and the sites CSV
    pc,             \* the statement the run has reached
    sites,          \* the sites table
    counties,       \* the boundary GeoDataFrame
    county_stats,   \* the base statistics table
    raw_keys,       \* the GEOID columns as they were read
    counties_layer, \* the reconciled county table
    source,         \* the optional file the last try block read
    warnings,       \* the warnings printed / shown so far
    err,            \* the exception that ended the run
    map_built,      \* build_illinois_map returned a map
    map_saved,      \* the HTML files were written
    \* --- map bench (build_illinois_map on one pair of tables)
    bm_args,        \* [sites, counties]: the tables as they were handed in
    bm_sites,       \* the caller's sites table
    bm_counties,    \* the caller's county table
    bm_out,         \* what build_illinois_map built
    bm_pc           \* "idle" | "in" | "built" | "raised"

fipsVars == <<fips_in, fips_once, fips_twice, fips_pc>>
colsVars == <<cols_in, cols_out, cols_pc, cols_found>>
scoreVars == <<sc_in, sc_mm, sc_out, sc_pc>>
pipeVars == <<entry, show_context_layers, disk, pc, sites, counties,
              county_stats, raw_keys, counties_layer, source, warnings, err,
              map_built, map_saved>>
mapVars == <<bm_args, bm_sites, bm_counties, bm_out, bm_pc>>
vars == <<fips_in, fips_once, fips_twice, fips_pc, cols_in, cols_out, cols_pc,
         cols_found,
          sc_in, sc_mm, sc_out, sc_pc,
          entry, show_context_layers, disk, pc, sites, counties,
          county_stats, raw_keys, counties_layer, source, warnings, err,
          map_built, map_saved,
          bm_args, bm_sites, bm_counties, bm_out, bm_pc>>

-----------------------------------------------------------------------------
(* Bounds of the model                                                     *)

\* most site rows handed to build_illinois_map
MaxSites == 2
\* longest raw identifier string drawn for the normalizer
MaxFipsLen == 6
\* largest numeric identifier drawn for the normalizer
MaxFipsNum == 12
\* longest label sequence handed to the column deduplicator
MaxCols == 3
\* most counties in the table handed to the score computation
MaxScoreRows == 2
\* counties in the boundary shapefile
MaxCounties == 2
\* most data rows in the LEAD energy-burden CSV
MaxLeadRows == 2

-----------------------------------------------------------------------------
(* Python str helpers                                                      *)

\* str.isspace() on one character
IsSpace(c) == c = " "

RECURSIVE LStrip(_)
LStrip(s) ==
    IF s = <<>> THEN s
    ELSE IF IsSpace(Head(s)) THEN LStrip(Tail(s)) ELSE s

RECURSIVE RStrip(_)
RStrip(s) ==
    IF s = <<>> THEN s
    ELSE IF IsSpace(s[Len(s)]) THEN RStrip(SubSeq(s, 1, Len(s) - 1)) ELSE s

\* str.strip(): leading and trailing whitespace removed
Strip(s) == RStrip(LStrip(s))

\* str.replace(pat, rep) with regex=False: every non-overlapping occurrence of
\* pat, scanning left to right, is replaced
RECURSIVE Replace(_, _, _)
Replace(s, pat, rep) ==
    IF Len(s) < Len(pat) THEN s
    ELSE IF SubSeq(s, 1, Len(pat)) = pat
         THEN rep \o Replace(SubSeq(s, Len(pat) + 1, Len(s)), pat, rep)
         ELSE <<Head(s)>> \o Replace(Tail(s), pat, rep)

\* Series.str.zfill(width): '0' characters are prepended up to width; a value
\* already that long or longer is returned as it is (never truncated)
zfill(s, width) ==
    IF Len(s) >= width THEN s
    ELSE [i \in 1..(width - Len(s)) |-> "0"] \o s

\* str.startswith(prefix)
StartsWith(s, prefix) ==
    Len(s) >= Len(prefix) /\ SubSeq(s, 1, Len(prefix)) = prefix

LowerLetters ==
    <<"a", "b", "c", "d", "e", "f", "g", "h", "i", "j", "k", "l", "m",
      "n", "o", "p", "q", "r", "s", "t", "u", "v", "w", "x", "y", "z">>
UpperLetters ==
    <<"A", "B", "C", "D", "E", "F", "G", "H", "I", "J", "K", "L", "M",
      "N", "O", "P", "Q", "R", "S", "T", "U", "V", "W", "X", "Y", "Z">>

\* str.lower() / str.upper(): letters change case, every other character stays
LowerChar(c) ==
    IF \E i \in 1..26 : UpperLetters[i] = c
    THEN LowerLetters[CHOOSE i \in 1..26 : UpperLetters[i] = c]
    ELSE c
UpperChar(c) ==
    IF \E i \in 1..26 : LowerLetters[i] = c
    THEN UpperLetters[CHOOSE i \in 1..26 : LowerLetters[i] = c]
    ELSE c
Lower(s) == [i \in 1..Len(s) |-> LowerChar(s[i])]
Upper(s) == [i \in 1..Len(s) |-> UpperChar(s[i])]

DigitChar(d) ==
    CASE d = 0 -> "0" [] d = 1 -> "1" [] d = 2 -> "2" [] d = 3 -> "3"
      [] d = 4 -> "4" [] d = 5 -> "5" [] d = 6 -> "6" [] d = 7 -> "7"
      [] d = 8 -> "8" [] d = 9 -> "9"

\* str(n) of a non-negative int
RECURSIVE IntToStr(_)
IntToStr(n) ==
    IF n < 10 THEN <<DigitChar(n)>>
    ELSE IntToStr(n \div 10) \o <<DigitChar(n % 10)>>

\* all strings over alphabet A of length at most n
StringsUpTo(A, n) == UNION {[1..k -> A] : k \in 0..n}

-----------------------------------------------------------------------------
(* _coerce_fips: make_map.py 119-122, streamlit_app.py 26-29               *)

\* width of the county identifier
FipsWidth == 5

\* the characters raw identifier strings are drawn from: a zero, a non-zero
\* digit, the dot of a float rendering and whitespace
FipsAlphabet == {"0", "1", ".", " "}

\* the values a series element can hold before astype(str)
FipsInputs ==
    [kind : {"str"}, s : StringsUpTo(FipsAlphabet, MaxFipsLen), n : {0}]
    \cup [kind : {"int", "float"}, s : {<<>>}, n : 0..MaxFipsNum]
    \cup [kind : {"nan"}, s : {<<>>}, n : {0}]

\* Series.astype(str) on one element: a str is kept, an int prints its digits,
\* an integral float prints digits and ".0", a missing float prints "nan"
AsStr(x) ==
    CASE x.kind = "str" -> x.s
      [] x.kind = "int" -> IntToStr(x.n)
      [] x.kind = "float" -> IntToStr(x.n) \o <<".", "0">>
      [] x.kind = "nan" -> <<"n", "a", "n">>

StrValue(s) == [kind |-> "str", s |-> s, n |-> 0]

\* mutant: the zeros are appended instead of prepended
_coerce_fips_rpad(x) ==
    LET s == Replace(Strip(AsStr(x)), <<".", "0">>, <<>>)
    IN  IF Len(s) >= FipsWidth THEN s
        ELSE s \o [i \in 1..(FipsWidth - Len(s)) |-> "0"]

_coerce_fips(x) ==
    LET s0 == Strip(AsStr(x))
        s1 == Replace(s0, <<".", "0">>, <<>>)
    IN  zfill(s1, FipsWidth)

IdleFips ==
    /\ fips_in = StrValue(<<>>)
    /\ fips_once = <<>>
    /\ fips_twice = <<>>
    /\ fips_pc = "idle"

InitFips ==
    /\ fips_in \in FipsInputs
    /\ fips_once = <<>>
    /\ fips_twice = <<>>
    /\ fips_pc = "in"

\* lead["GEOID"] = _coerce_fips(lead["Geography ID"])
CoerceFips ==
    /\ fips_pc = "in"
    /\ fips_once' = _coerce_fips(fips_in)
    /\ fips_pc' = "once"
    /\ UNCHANGED <<fips_in, fips_twice>>

\* the normalizer applied to its own output
CoerceFipsAgain ==
    /\ fips_pc = "once"
    /\ fips_twice' = _coerce_fips(StrValue(fips_once))
    /\ fips_pc' = "twice"
    /\ UNCHANGED <<fips_in, fips_once>>

-----------------------------------------------------------------------------
(* _make_unique_columns: make_map.py 125-141, streamlit_app.py 32-48       *)

\* a label that is None (an empty header cell)
NoneLabel == <<"None">>

\* the column labels the program names, and the labels of the modelled
\* headers
Label ==
    [NAME |->
        <<"N", "A", "M", "E">>,
     geometry |->
        <<"g", "e", "o", "m", "e", "t", "r", "y">>,
     NAME_clean |->
        <<"N", "A", "M", "E", "_", "c", "l", "e", "a", "n">>,
     County_clean |->
        <<"C", "o", "u", "n", "t", "y", "_", "c", "l", "e", "a", "n">>,
     State |->
        <<"S", "t", "a", "t", "e">>,
     County |->
        <<"C", "o", "u", "n", "t", "y">>,
     Year |->
        <<"Y", "e", "a", "r">>,
     P90_raw |->
        <<"9", "0", "t", "h", " ", "P", "e", "r", "c", "e", "n", "t", "i",
          "l", "e", " ", "A", "Q", "I">>,
     Median_raw |->
        <<"M", "e", "d", "i", "a", "n", " ", "A", "Q", "I">>,
     Max_raw |->
        <<"M", "a", "x", " ", "A", "Q", "I">>,
     Ozone_raw |->
        <<"D", "a", "y", "s", " ", "O", "z", "o", "n", "e">>,
     PM25_raw |->
        <<"D", "a", "y", "s", " ", "P", "M", "2", ".", "5">>,
     Days_raw |->
        <<"D", "a", "y", "s", " ", "w", "i", "t", "h", " ", "A", "Q", "I">>,
     AQI_P90 |->
        <<"A", "Q", "I", "_", "P", "9", "0">>,
     AQI_Median |->
        <<"A", "Q", "I", "_", "M", "e", "d", "i", "a", "n">>,
     AQI_Max |->
        <<"A", "Q", "I", "_", "M", "a", "x">>,
     Ozone_Days |->
        <<"O", "z", "o", "n", "e", "_", "D", "a", "y", "s">>,
     PM25_Days |->
        <<"P", "M", "2", "5", "_", "D", "a", "y", "s">>,
     AQI_Days_Total |->
        <<"A", "Q", "I", "_", "D", "a", "y", "s", "_", "T", "o", "t", "a",
          "l">>,
     GeographyID |->
        <<"G", "e", "o", "g", "r", "a", "p", "h", "y", " ", "I", "D">>,
     Burden_raw |->
        <<"E", "n", "e", "r", "g", "y", " ", "B", "u", "r", "d", "e", "n",
          " ", "(", "%", " ", "i", "n", "c", "o", "m", "e", ")">>,
     Cost_raw |->
        <<"A", "v", "g", ".", " ", "A", "n", "n", "u", "a", "l", " ", "E",
          "n", "e", "r", "g", "y", " ", "C", "o", "s", "t", " ", "(", "$",
          ")">>,
     Households_raw |->
        <<"T", "o", "t", "a", "l", " ", "H", "o", "u", "s", "e", "h", "o",
          "l", "d", "s">>,
     Income_raw |->
        <<"H", "o", "u", "s", "e", "h", "o", "l", "d", " ", "I", "n", "c",
          "o", "m", "e">>,
     Energy_Burden |->
        <<"E", "n", "e", "r", "g", "y", "_", "B", "u", "r", "d", "e", "n",
          "_", "P", "c", "t", "I", "n", "c", "o", "m", "e">>,
     Energy_Cost |->
        <<"A", "v", "g", "_", "A", "n", "n", "u", "a", "l", "_", "E", "n",
          "e", "r", "g", "y", "_", "C", "o", "s", "t", "_", "U", "S", "D">>,
     Total_Households |->
        <<"T", "o", "t", "a", "l", "_", "H", "o", "u", "s", "e", "h", "o",
          "l", "d", "s">>,
     Household_Income |->
        <<"H", "o", "u", "s", "e", "h", "o", "l", "d", "_", "I", "n", "c",
          "o", "m", "e", "_", "U", "S", "D">>,
     state_abbr |->
        <<"s", "t", "a", "t", "e", "_", "a", "b", "b", "r">>,
     county_id |->
        <<"c", "o", "u", "n", "t", "y", "_", "i", "d">>,
     cons_raw |->
        <<"c", "o", "n", "s", "u", "m", "p", "t", "i", "o", "n", " ", "(",
          "M", "W", "h", "/", "c", "a", "p", "i", "t", "a", ")">>,
     Elec |->
        <<"E", "l", "e", "c", "_", "C", "o", "n", "s", "u", "m", "p", "t",
          "i", "o", "n", "_", "M", "W", "h", "_", "p", "e", "r", "C", "a",
          "p", "i", "t", "a">>,
     lat |->
        <<"l", "a", "t">>,
     lon |->
        <<"l", "o", "n">>,
     name |->
        <<"n", "a", "m", "e">>,
     layer |->
        <<"l", "a", "y", "e", "r">>,
     site_id |->
        <<"s", "i", "t", "e", "_", "i", "d">>,
     surroundings_snapshot |->
        <<"s", "u", "r", "r", "o", "u", "n", "d", "i", "n", "g", "s", "_",
          "s", "n", "a", "p", "s", "h", "o", "t">>,
     community_signals |->
        <<"c", "o", "m", "m", "u", "n", "i", "t", "y", "_", "s", "i", "g",
          "n", "a", "l", "s">>,
     stressors |->
        <<"s", "t", "r", "e", "s", "s", "o", "r", "s">>,
     sources |->
        <<"s", "o", "u", "r", "c", "e", "s">>,
     Median_Household_Income |->
        <<"M", "e", "d", "i", "a", "n", "_", "H", "o", "u", "s", "e", "h",
          "o", "l", "d", "_", "I", "n", "c", "o", "m", "e">>,
     GEOID |->
        <<"G", "E", "O", "I", "D">>,
     Poverty_Rate_Percent |->
        <<"P", "o", "v", "e", "r", "t", "y", "_", "R", "a", "t", "e", "_",
          "P", "e", "r", "c", "e", "n", "t">>,
     Pct_Minority |->
        <<"P", "c", "t", "_", "M", "i", "n", "o", "r", "i", "t", "y">>,
     Impact_Score |->
        <<"I", "m", "p", "a", "c", "t", "_", "S", "c", "o", "r", "e">>,
     nan |->
        <<"n", "a", "n">>,
     NaN |->
        <<"N", "a", "N">>,
     a_sp |->
        <<" ", "a">>,
     a2 |->
        <<"a", "_", "_", "2">>,
     a |->
        <<"a">>,
     col0 |->
        <<"c", "o", "l", "_", "0">>,
     col1 |->
        <<"c", "o", "l", "_", "1">>,
     col |->
        <<"c", "o", "l", "_">>,
     sep |->
        <<"_", "_">>]


\* the labels the deduplicator is driven with: missing, blank, the missing
\* token, duplicates, and labels shaped like the ones it generates
LabelPool ==
    {NoneLabel, <<>>, <<" ">>, Label.nan, Label.NaN, Label.a, Label.a_sp,
     Label.a2, Label.col0, Label.col1}

ColumnInputs == UNION {[1..k -> LabelPool] : k \in 0..MaxCols}

\* name = "" if c is None else str(c).strip(); blank or "nan" becomes col_<i>
\* (i is the 0-based position)
CleanLabel(c, i) ==
    LET name == IF c = NoneLabel THEN <<>> ELSE Strip(c)
    IN  IF name = <<>> \/ Lower(name) = Label.nan
        THEN Label.col \o IntToStr(i)
        ELSE name

\* seen[name] after the first k labels: how many of them cleaned to name
SeenCount(cols, k, name) ==
    Cardinality({j \in 1..k : CleanLabel(cols[j], j - 1) = name})

_make_unique_columns(cols) ==
    [i \in 1..Len(cols) |->
        LET name == CleanLabel(cols[i], i - 1)
            n == SeenCount(cols, i, name)
        IN  IF n = 1 THEN name ELSE name \o Label.sep \o IntToStr(n)]

\* no lookup was made yet
NoLookup == [base |-> <<>>, cols |-> <<>>, names |-> <<>>, result |-> NoneLabel]

IdleCols ==
    /\ cols_in = <<>>
    /\ cols_out = <<>>
    /\ cols_found = NoLookup
    /\ cols_pc = "idle"

InitCols ==
    /\ cols_in \in ColumnInputs
    /\ cols_out = <<>>
    /\ cols_found = NoLookup
    /\ cols_pc = "in"

\* df.columns = _make_unique_columns(df.columns)
MakeUnique ==
    /\ cols_pc = "in"
    /\ cols_out' = _make_unique_columns(cols_in)
    /\ cols_pc' = "out"
    /\ UNCHANGED <<cols_in, cols_found>>

-----------------------------------------------------------------------------
(* Tables: a DataFrame is its ordered column labels and its rows; a cell   *)
(* is [kind, s, n]: "str" (text s), "int" (n), "float" (n.0), "dec1"       *)
(* (the float n/10) or "nan" (a missing value); where None and pd.NA have  *)
(* to be told from NaN, they are the cells of kind "none" and "na"         *)

NaCell == [kind |-> "nan", s |-> <<>>, n |-> 0]
StrCell(s) == [kind |-> "str", s |-> s, n |-> 0]
IntCell(n) == [kind |-> "int", s |-> <<>>, n |-> n]
Dec1Cell(n) == [kind |-> "dec1", s |-> <<>>, n |-> n]

EmptyTable == [cols |-> <<>>, rows |-> <<>>]

\* label in df.columns
HasCol(t, c) == \E i \in 1..Len(t.cols) : t.cols[i] = c

ColIndex(t, c) ==
    CHOOSE i \in 1..Len(t.cols) :
        t.cols[i] = c /\ \A j \in 1..(i - 1) : t.cols[j] # c

\* df[label]
Col(t, c) == [r \in 1..Len(t.rows) |-> t.rows[r][ColIndex(t, c)]]

\* df[label] = series: an existing column is overwritten in place, a new one
\* is appended as the last column
SetCol(t, c, series) ==
    IF HasCol(t, c)
    THEN [t EXCEPT !.rows =
            [r \in 1..Len(t.rows) |->
                [t.rows[r] EXCEPT ![ColIndex(t, c)] = series[r]]]]
    ELSE [cols |-> Append(t.cols, c),
          rows |-> [r \in 1..Len(t.rows) |-> Append(t.rows[r], series[r])]]

-----------------------------------------------------------------------------
(* Numbers: a float series entry is NaN or the exact rational num/den      *)

NaN == [nan |-> TRUE, num |-> 0, den |-> 1]

RECURSIVE Gcd(_, _)
Gcd(a, b) == IF b = 0 THEN a ELSE Gcd(b, a % b)

Abs(a) == IF a < 0 THEN -a ELSE a

\* num/den in lowest terms; den = 0 marks a division by zero
Rat(num, den) ==
    IF den = 0 THEN [nan |-> FALSE, num |-> num, den |-> 0]
    ELSE LET g == Gcd(Abs(num), Abs(den))
             sgn == IF den < 0 THEN -1 ELSE 1
         IN  [nan |-> FALSE, num |-> sgn * (num \div g), den |-> sgn * (den \div g)]

RatLess(a, b) == a.num * b.den < b.num * a.den
RatSub(a, b) == Rat(a.num * b.den - b.num * a.den, a.den * b.den)
RatDiv(a, b) == Rat(a.num * b.den, a.den * b.num)

IsDigits(s) ==
    /\ s # <<>>
    /\ \A i \in 1..Len(s) : \E d \in 0..9 : DigitChar(d) = s[i]

RECURSIVE StrToInt(_)
StrToInt(s) ==
    IF s = <<>> THEN 0
    ELSE 10 * StrToInt(SubSeq(s, 1, Len(s) - 1))
         + (CHOOSE d \in 0..9 : DigitChar(d) = s[Len(s)])

\* pd.to_numeric(errors="coerce") on one cell: numbers are kept, text that is
\* a run of decimal digits (surrounding whitespace ignored) is parsed, missing
\* values and any other text of the model become NaN
ToNumeric(c) ==
    CASE c.kind = "int" -> Rat(c.n, 1)
      [] c.kind = "float" -> Rat(c.n, 1)
      [] c.kind = "dec1" -> Rat(c.n, 10)
      [] c.kind = "nan" -> NaN
      [] c.kind = "str" ->
            IF IsDigits(Strip(c.s)) THEN Rat(StrToInt(Strip(c.s)), 1) ELSE NaN

ToNumericSeries(series) == [i \in 1..Len(series) |-> ToNumeric(series[i])]

\* the non-missing entries of a numeric series (s.dropna())
Valid(s) == {i \in 1..Len(s) : ~s[i].nan}

SeriesMin(s) ==
    s[CHOOSE i \in Valid(s) : \A j \in Valid(s) : ~RatLess(s[j], s[i])]
\* mutant: the earliest value in place of the latest
SeriesMax_earliest(s) == SeriesMin(s)

SeriesMax(s) ==
    s[CHOOSE i \in Valid(s) : \A j \in Valid(s) : ~RatLess(s[i], s[j])]

\* round half to even of p/q (q > 0, p >= 0) to an integer
RoundHalfEven(p, q) ==
    LET fl == p \div q
        r == p % q
    IN  IF 2 * r < q THEN fl
        ELSE IF 2 * r > q THEN fl + 1
        ELSE IF fl % 2 = 0 THEN fl ELSE fl + 1

-----------------------------------------------------------------------------
(* _minmax, _compute_impact_score: build_map.py 17-45                      *)

\* the weights of the composite score, in hundredths
W_POVERTY == 55
W_MINORITY == 45

\* mutants of _minmax
_minmax_noguard(series) ==
    LET s == ToNumericSeries(series)
    IN  IF Valid(s) = {} THEN s
        ELSE LET mn == SeriesMin(s)
                 mx == SeriesMax(s)
             IN  [i \in 1..Len(s) |->
                     IF s[i].nan THEN NaN
                     ELSE RatDiv(RatSub(s[i], mn), RatSub(mx, mn))]

_minmax(series) ==
    LET s == ToNumericSeries(series)
    IN  IF Valid(s) = {} THEN s
        ELSE LET mn == SeriesMin(s)
                 mx == SeriesMax(s)
             IN  IF mx = mn
                 THEN [i \in 1..Len(s) |-> IF s[i].nan THEN NaN ELSE Rat(0, 1)]
                 ELSE [i \in 1..Len(s) |->
                         IF s[i].nan THEN NaN
                         ELSE RatDiv(RatSub(s[i], mn), RatSub(mx, mn))]

\* mutant: the two weights are exchanged
ScoreCell_swapped(p, m) ==
    IF p.nan \/ m.nan THEN NaCell
    ELSE Dec1Cell(RoundHalfEven(
            10 * (W_MINORITY * p.num * m.den + W_POVERTY * m.num * p.den),
            p.den * m.den))

\* one entry of (0.55 * pov_n + 0.45 * min_n) * 100 rounded to one decimal,
\* held in tenths; NaN in either term gives NaN
ScoreCell(p, m) ==
    IF p.nan \/ m.nan THEN NaCell
    ELSE Dec1Cell(RoundHalfEven(
            10 * (W_POVERTY * p.num * m.den + W_MINORITY * m.num * p.den),
            p.den * m.den))

NaSeries(t) == [r \in 1..Len(t.rows) |-> NaCell]

\* mutant: the raw percentages are weighted, not their min-max normalization
_compute_impact_score_raw(gdf) ==
    LET c1 == IF HasCol(gdf, Label.Poverty_Rate_Percent) THEN gdf
              ELSE SetCol(gdf, Label.Poverty_Rate_Percent, NaSeries(gdf))
        c2 == IF HasCol(c1, Label.Pct_Minority) THEN c1
              ELSE SetCol(c1, Label.Pct_Minority, NaSeries(c1))
        pov_n == ToNumericSeries(Col(c2, Label.Poverty_Rate_Percent))
        min_n == ToNumericSeries(Col(c2, Label.Pct_Minority))
    IN  SetCol(c2, Label.Impact_Score,
               [r \in 1..Len(c2.rows) |-> ScoreCell(pov_n[r], min_n[r])])

_compute_impact_score(gdf) ==
    LET c1 == IF HasCol(gdf, Label.Poverty_Rate_Percent) THEN gdf
              ELSE SetCol(gdf, Label.Poverty_Rate_Percent, NaSeries(gdf))
        c2 == IF HasCol(c1, Label.Pct_Minority) THEN c1
              ELSE SetCol(c1, Label.Pct_Minority, NaSeries(c1))
        pov_n == _minmax(Col(c2, Label.Poverty_Rate_Percent))
        min_n == _minmax(Col(c2, Label.Pct_Minority))
    IN  SetCol(c2, Label.Impact_Score,
               [r \in 1..Len(c2.rows) |-> ScoreCell(pov_n[r], min_n[r])])

\* the cells a percentage column is drawn from: missing, text that is not a
\* number, and percentages in [0, 100]
ScoreCells == {NaCell, StrCell(<<"x">>), IntCell(10), IntCell(30), IntCell(100)}

\* county tables with a GEOID column and, each optionally, the two inputs
ScoreInputs ==
    UNION {
        { [cols |-> <<Label.GEOID>> \o (IF hp THEN <<Label.Poverty_Rate_Percent>> ELSE <<>>)
                                \o (IF hm THEN <<Label.Pct_Minority>> ELSE <<>>),
           rows |-> [r \in 1..k |->
                        <<StrCell(IntToStr(r))>>
                        \o (IF hp THEN <<pv[r]>> ELSE <<>>)
                        \o (IF hm THEN <<mv[r]>> ELSE <<>>)]] :
            pv \in [1..k -> IF hp THEN ScoreCells ELSE {NaCell}],
            mv \in [1..k -> IF hm THEN ScoreCells ELSE {NaCell}] } :
        k \in 0..MaxScoreRows, hp \in BOOLEAN, hm \in BOOLEAN }

IdleScore ==
    /\ sc_in = EmptyTable
    /\ sc_mm = [col |-> <<>>, out |-> <<>>]
    /\ sc_out = EmptyTable
    /\ sc_pc = "idle"

InitScore ==
    /\ sc_in \in ScoreInputs
    /\ sc_mm = [col |-> <<>>, out |-> <<>>]
    /\ sc_out = EmptyTable
    /\ sc_pc = "in"

\* pov_n = _minmax(c["Poverty_Rate_Percent"]) / min_n = _minmax(c["Pct_Minority"])
ApplyMinmax ==
    /\ sc_pc = "in"
    /\ \E c \in {Label.Poverty_Rate_Percent, Label.Pct_Minority} :
        /\ HasCol(sc_in, c)
        /\ sc_mm' = [col |-> c, out |-> _minmax(Col(sc_in, c))]
    /\ sc_pc' = "minmax"
    /\ UNCHANGED <<sc_in, sc_out>>

\* cl = _compute_impact_score(cl)
ComputeImpactScore ==
    /\ sc_pc = "in"
    /\ sc_out' = _compute_impact_score(sc_in)
    /\ sc_pc' = "scored"
    /\ UNCHANGED <<sc_in, sc_mm>>

-----------------------------------------------------------------------------
(* DataFrame operations of the reconciliation pipeline                     *)


\* the string literals of make_map.main, and the values the modelled files
\* hold
Text ==
    [illinois |->
        <<"i", "l", "l", "i", "n", "o", "i", "s">>,
     Illinois |->
        <<"I", "l", "l", "i", "n", "o", "i", "s">>,
     Iowa |->
        <<"I", "o", "w", "a">>,
     IL |->
        <<"I", "L">>,
     il |->
        <<"i", "l">>,
     IA |->
        <<"I", "A">>,
     CountySuffix |->
        <<" ", "C", "o", "u", "n", "t", "y">>,
     Cook_County |->
        <<"C", "o", "o", "k", " ", "C", "o", "u", "n", "t", "y">>,
     Lake_County |->
        <<"L", "a", "k", "e", " ", "C", "o", "u", "n", "t", "y">>,
     Cook |->
        <<"C", "o", "o", "k">>,
     Lake |->
        <<"L", "a", "k", "e">>,
     x |->
        <<"_", "x">>,
     y |->
        <<"_", "y">>,
     geom |->
        <<"g", "e", "o", "m">>,
     geom_simplified |->
        <<"g", "e", "o", "m", "~">>,
     existing |->
        <<"e", "x", "i", "s", "t", "i", "n", "g">>,
     denied |->
        <<"d", "e", "n", "i", "e", "d">>,
     INV |->
        <<"I", "N", "V">>,
     inventory |->
        <<"i", "n", "v", "e", "n", "t", "o", "r", "y">>,
     reserve |->
        <<"r", "e", "s", "e", "r", "v", "e">>,
     None |->
        <<"N", "o", "n", "e">>,
     NA |->
        <<"<", "N", "A", ">">>,
     id_INV123 |->
        <<"I", "N", "V", "1", "2", "3">>,
     id_inv123 |->
        <<"i", "n", "v", "1", "2", "3">>,
     id_A1 |->
        <<"A", "1">>,
     st_Existing |->
        <<" ", "E", "x", "i", "s", "t", "i", "n", "g", " ">>,
     st_Inventory |->
        <<"E", "x", "i", "s", "t", "i", "n", "g", " ", "I", "N", "V", "E",
          "N", "T", "O", "R", "Y">>,
     st_reserve |->
        <<"d", "e", "n", "i", "e", "d", " ", "p", "o", "w", "e", "r", " ",
          "r", "e", "s", "e", "r", "v", "e">>,
     st_planned |->
        <<"p", "l", "a", "n", "n", "e", "d">>,
     a_name |->
        <<"n">>,
     a_note |->
        <<"s">>,
     not_a_number |->
        <<"x">>,
     digits |->
        <<"4", "1">>]

FloatCell(n) == [kind |-> "float", s |-> <<>>, n |-> n]

\* counties_layer = None (the Streamlit app without context layers)
NoneTable == [cols |-> <<NoneLabel>>, rows |-> <<>>]

Range(f) == {f[i] : i \in DOMAIN f}

RECURSIVE Flatten(_)
Flatten(ss) == IF ss = <<>> THEN <<>> ELSE Head(ss) \o Flatten(Tail(ss))

\* astype(str) of a cell of any kind (a one-decimal float prints "d.d")
CellStr(c) ==
    IF c.kind = "dec1"
    THEN IntToStr(c.n \div 10) \o <<".">> \o IntToStr(c.n % 10)
    ELSE AsStr(c)

\* df[mask]: the rows satisfying Test, in order
FilterRows(t, Test(_)) == [t EXCEPT !.rows = SelectSeq(t.rows, Test)]

\* df[[labels]]
KeepCols(t, labels) ==
    [cols |-> labels,
     rows |-> [r \in 1..Len(t.rows) |->
                 [k \in 1..Len(labels) |-> t.rows[r][ColIndex(t, labels[k])]]]]

\* df.rename(columns=pairs): pairs is a sequence of <<old, new>>
RenameLabel(c, pairs) ==
    IF \E p \in 1..Len(pairs) : pairs[p][1] = c
    THEN pairs[CHOOSE p \in 1..Len(pairs) : pairs[p][1] = c][2]
    ELSE c
Rename(t, pairs) ==
    [t EXCEPT !.cols = [i \in 1..Len(t.cols) |-> RenameLabel(t.cols[i], pairs)]]

\* left.merge(right, left_on=lkey, right_on=rkey, how="left"): every left row
\* is kept, in order, once per matching right row (once with missing values
\* when none matches); with on=key the key column is not repeated; a label
\* on both sides (the key aside) gets the suffixes _x and _y
Merge(left, right, lkey, rkey) ==
    LET li == ColIndex(left, lkey)
        ri == ColIndex(right, rkey)
        keep == SelectSeq([i \in 1..Len(right.cols) |-> i],
                          LAMBDA i : lkey # rkey \/ i # ri)
        rlabels == [k \in 1..Len(keep) |-> right.cols[keep[k]]]
        overlap == {c \in Range(left.cols) :
                        (lkey # rkey \/ c # lkey) /\ c \in Range(rlabels)}
        lcols == [i \in 1..Len(left.cols) |->
                    IF left.cols[i] \in overlap
                    THEN left.cols[i] \o Text.x ELSE left.cols[i]]
        rcols == [k \in 1..Len(rlabels) |->
                    IF rlabels[k] \in overlap
                    THEN rlabels[k] \o Text.y ELSE rlabels[k]]
        Matches(lrow) == SelectSeq(right.rows, LAMBDA rr : rr[ri] = lrow[li])
        Expand(lrow) ==
            IF Matches(lrow) = <<>>
            THEN << lrow \o [k \in 1..Len(keep) |-> NaCell] >>
            ELSE [m \in 1..Len(Matches(lrow)) |->
                    lrow \o [k \in 1..Len(keep) |-> Matches(lrow)[m][keep[k]]]]
    IN  [cols |-> lcols \o rcols,
         rows |-> Flatten([r \in 1..Len(left.rows) |-> Expand(left.rows[r])])]

\* make_map.py 144-147
_ensure_unique_gdf_columns(gdf) ==
    [gdf EXCEPT !.cols = _make_unique_columns(gdf.cols)]

\* make_map.py 180-186: the label itself, else the first label that is base
\* or starts with base + "__", else None
_find_col(df, base_name) ==
    IF HasCol(df, base_name) THEN base_name
    ELSE LET hits == SelectSeq(df.cols,
                        LAMBDA c : c = base_name
                                   \/ StartsWith(c, base_name \o Label.sep))
         IN  IF hits = <<>> THEN NoneLabel ELSE Head(hits)

\* the base names looked up
FindBases == {Label.a, Label.col0}

\* make_map.py 172-176 and 302-304: the header is deduplicated, dropna(axis=1,
\* how="all") drops no column or the all-empty column `drop`, and one base
\* name is looked up; names are the cleaned raw labels of the columns left
FindCol ==
    /\ cols_pc = "out"
    /\ \E base \in FindBases, drop \in 0..Len(cols_out) :
        LET keep == SelectSeq([i \in 1..Len(cols_out) |-> i],
                              LAMBDA i : i # drop)
            header == [k \in 1..Len(keep) |-> cols_out[keep[k]]]
        IN  cols_found' =
                [base |-> base,
                 cols |-> header,
                 names |-> [k \in 1..Len(keep) |->
                                CleanLabel(cols_in[keep[k]], keep[k] - 1)],
                 result |-> _find_col([cols |-> header, rows |-> <<>>], base)]
    /\ cols_pc' = "found"
    /\ UNCHANGED <<cols_in, cols_out>>

\* the outcome of a try block: the table it leaves in counties_layer, and the
\* exception it caught
Ok(t) == [ok |-> TRUE, table |-> t, error |-> "none"]
Fail(t, e) == [ok |-> FALSE, table |-> t, error |-> e]

-----------------------------------------------------------------------------
(* The three optional enrichment steps: make_map.py 227-328,               *)
(* streamlit_app.py 158-255                                                *)

AqiRawLabels ==
    <<Label.P90_raw, Label.Median_raw, Label.Max_raw, Label.Ozone_raw, Label.PM25_raw, Label.Days_raw>>
AqiRename ==
    << <<Label.P90_raw, Label.AQI_P90>>, <<Label.Median_raw, Label.AQI_Median>>,
       <<Label.Max_raw, Label.AQI_Max>>, <<Label.Ozone_raw, Label.Ozone_Days>>,
       <<Label.PM25_raw, Label.PM25_Days>>, <<Label.Days_raw, Label.AQI_Days_Total>> >>

\* int(x) of a non-negative float
IntPart(x) == x.num \div x.den

\* the body of the AQI try block on the file f = [exists, table]
AqiMerge(layer, f) ==
    IF ~f.exists THEN Fail(layer, "FileNotFoundError")
    ELSE IF ~HasCol(f.table, Label.State) THEN Fail(layer, "KeyError")
    ELSE
    LET aqi == f.table
        aqi_il == FilterRows(aqi, LAMBDA row :
                    Lower(Strip(CellStr(row[ColIndex(aqi, Label.State)]))) = Text.illinois)
    IN  IF ~HasCol(aqi_il, Label.Year) THEN Fail(layer, "KeyError")
        ELSE
        LET years == ToNumericSeries(Col(aqi_il, Label.Year))
        IN  IF Valid(years) = {} THEN Fail(layer, "ValueError")
            ELSE
            LET latest_year == IntPart(SeriesMax(years))
                aqi_y == FilterRows(aqi_il, LAMBDA row :
                            ToNumeric(row[ColIndex(aqi, Label.Year)])
                                = Rat(latest_year, 1))
            IN  IF ~HasCol(aqi_y, Label.County) THEN Fail(layer, "KeyError")
                ELSE
                LET with_key == SetCol(aqi_y, Label.County_clean,
                        [r \in 1..Len(aqi_y.rows) |->
                            StrCell(Upper(Strip(Replace(
                                CellStr(Col(aqi_y, Label.County)[r]),
                                Text.CountySuffix, <<>>))))])
                IN  IF \E k \in 1..Len(AqiRawLabels) :
                            ~HasCol(with_key, AqiRawLabels[k])
                    THEN Fail(layer, "KeyError")
                    ELSE
                    LET aqi_keep == Rename(
                            KeepCols(with_key, <<Label.County_clean>> \o AqiRawLabels),
                            AqiRename)
                    IN  Ok(_ensure_unique_gdf_columns(
                            Merge(layer, aqi_keep, Label.NAME_clean, Label.County_clean)))

LeadRawLabels == <<Label.Burden_raw, Label.Cost_raw, Label.Households_raw, Label.Income_raw>>
LeadRename ==
    << <<Label.Burden_raw, Label.Energy_Burden>>, <<Label.Cost_raw, Label.Energy_Cost>>,
       <<Label.Households_raw, Label.Total_Households>>,
       <<Label.Income_raw, Label.Household_Income>> >>

\* the body of the LEAD try block on the file f = [exists, table]; table is
\* what pd.read_csv(path, skiprows=8) parses
LeadMerge(layer, f) ==
    IF ~f.exists THEN Fail(layer, "FileNotFoundError")
    ELSE
    LET lead0 == [f.table EXCEPT !.cols = _make_unique_columns(f.table.cols)]
    IN  IF ~HasCol(lead0, Label.GeographyID) THEN Fail(layer, "ValueError")
        ELSE
        LET lead == SetCol(lead0, Label.GEOID,
                        [r \in 1..Len(lead0.rows) |->
                            StrCell(_coerce_fips(Col(lead0, Label.GeographyID)[r]))])
            keep_cols == <<Label.GEOID>>
                         \o SelectSeq(LeadRawLabels, LAMBDA c : HasCol(lead, c))
            lead_keep == Rename(KeepCols(lead, keep_cols), LeadRename)
        IN  Ok(_ensure_unique_gdf_columns(
                Merge(layer, lead_keep, Label.GEOID, Label.GEOID)))

\* the label a header cell gives: None for an empty cell, else its text
HeaderLabel(c) == IF c = NaCell THEN NoneLabel ELSE CellStr(c)

\* df.dropna(axis=1, how="all"): columns whose every cell is missing go
DropEmptyCols(t) ==
    KeepCols(t, SelectSeq(t.cols, LAMBDA c :
                    \E r \in 1..Len(t.rows) : Col(t, c)[r] # NaCell))

\* make_map.py 156-177 on f = [pyxlsb, exists, rows]: rows are the raw cell
\* rows of the County sheet
_read_energy_profiles_xlsb_county(f) ==
    IF ~f.pyxlsb THEN Fail(EmptyTable, "ImportError")
    ELSE IF ~f.exists THEN Fail(EmptyTable, "FileNotFoundError")
    ELSE IF Len(f.rows) < 6 THEN Fail(EmptyTable, "ValueError")
    ELSE
    LET header == _make_unique_columns(
                    [i \in 1..Len(f.rows[5]) |-> HeaderLabel(f.rows[5][i])])
        data == SubSeq(f.rows, 6, Len(f.rows))
    IN  IF \E r \in 1..Len(data) : Len(data[r]) # Len(header)
        THEN Fail(EmptyTable, "ValueError")
        ELSE Ok(DropEmptyCols([cols |-> header, rows |-> data]))

\* the body of the XLSB try block
XlsbMerge(layer, f) ==
    LET read == _read_energy_profiles_xlsb_county(f)
    IN  IF ~read.ok THEN Fail(layer, read.error)
        ELSE
        LET ep == read.table
            state_col == _find_col(ep, Label.state_abbr)
            county_col == _find_col(ep, Label.county_id)
            cons_col == _find_col(ep, Label.cons_raw)
        IN  IF state_col = NoneLabel \/ county_col = NoneLabel
               \/ cons_col = NoneLabel
            THEN Fail(layer, "ValueError")
            ELSE
            LET ep_f == FilterRows(ep, LAMBDA row :
                            Upper(CellStr(row[ColIndex(ep, state_col)])) = Text.IL)
                ep_il == SetCol(ep_f, Label.GEOID,
                            [r \in 1..Len(ep_f.rows) |->
                                StrCell(_coerce_fips(Col(ep_f, county_col)[r]))])
                ep_keep == Rename(KeepCols(ep_il, <<Label.GEOID, cons_col>>),
                                  << <<cons_col, Label.Elec>> >>)
            IN  Ok(_ensure_unique_gdf_columns(
                    Merge(layer, ep_keep, Label.GEOID, Label.GEOID)))

-----------------------------------------------------------------------------
(* The files the pipeline reads                                            *)

\* config.py 15-18
IL_SITES_CSV == "data/processed/il_sites_enhanced.csv"
IL_COUNTY_STATS_ENHANCED_CSV == "data/processed/il_county_stats_enhanced.csv"
IL_COUNTY_BOUNDARIES_SHP == "data/boundaries/IL_County_Boundaries.shp"

MissingFile == [exists |-> FALSE, table |-> EmptyTable]
File(t) == [exists |-> TRUE, table |-> t]

\* the sites CSV: absent, without the lat/lon columns, or complete
SitesFiles ==
    { MissingFile,
      File([cols |-> <<Label.name, Label.layer>>,
            rows |-> << <<StrCell(<<"s">>), StrCell(<<"e">>)>> >>]),
      File([cols |-> <<Label.name, Label.layer, Label.lat, Label.lon>>,
            rows |-> << <<StrCell(<<"s">>), StrCell(<<"e">>),
                          IntCell(41), IntCell(89)>> >>]) }

CountyName(r) == IF r % 2 = 1 THEN Text.Cook ELSE Text.Lake

\* the county shapefile: k counties with GEOIDs "1".."k", with or without a
\* NAME field
CountiesTable(k, hasName) ==
    [cols |-> <<Label.GEOID>> \o (IF hasName THEN <<Label.NAME>> ELSE <<>>)
                          \o <<Label.geometry>>,
     rows |-> [r \in 1..k |->
                <<StrCell(IntToStr(r))>>
                \o (IF hasName THEN <<StrCell(CountyName(r))>> ELSE <<>>)
                \o <<StrCell(Text.geom)>>]]

StatsTable(ids) ==
    [cols |-> <<Label.GEOID, Label.Poverty_Rate_Percent, Label.Pct_Minority>>,
     rows |-> [r \in 1..Len(ids) |-> <<ids[r], IntCell(10 * r), IntCell(30)>>]]

\* the base statistics CSV: integer GEOIDs, a GEOID column read as float, a
\* GEOID with leading whitespace, a repeated GEOID, and a file with the three
\* further columns 'a', ' a' and 'a__2'
StatsTables ==
    { StatsTable(<<IntCell(1), IntCell(2)>>),
      StatsTable(<<FloatCell(1)>>),
      StatsTable(<<StrCell(<<" ", "2">>)>>),
      StatsTable(<<IntCell(1), IntCell(1)>>),
      [cols |-> <<Label.GEOID, Label.Poverty_Rate_Percent, Label.Pct_Minority, Label.a, Label.a_sp, Label.a2>>,
       rows |-> << <<IntCell(1), IntCell(10), IntCell(30),
                     IntCell(1), IntCell(2), IntCell(3)>> >>] }

AqiCols == <<Label.State, Label.County, Label.Year>> \o AqiRawLabels
AqiRow(state, county, year, v) ==
    <<StrCell(state), StrCell(county), year>> \o [k \in 1..6 |-> IntCell(v)]

\* the AQI CSV: absent; without the Year column; two years of one county and
\* another state; Illinois rows without a numeric year; one county twice in
\* the latest year; a year that is not a whole number (2.5)
AqiFiles ==
    { MissingFile,
      File(KeepCols([cols |-> AqiCols,
                     rows |-> <<AqiRow(Text.Illinois, Text.Cook_County, IntCell(2), 50)>>],
                    <<Label.State, Label.County>> \o AqiRawLabels)),
      File([cols |-> AqiCols,
            rows |-> <<AqiRow(Text.Illinois, Text.Cook_County, IntCell(1), 40),
                       AqiRow(Text.Illinois, Text.Cook_County, IntCell(2), 50),
                       AqiRow(Text.Iowa, Text.Lake_County, IntCell(3), 60)>>]),
      File([cols |-> AqiCols,
            rows |-> <<AqiRow(Text.Illinois, Text.Cook_County, StrCell(<<"x">>), 40),
                       AqiRow(Text.Iowa, Text.Lake_County, IntCell(3), 60)>>]),
      File([cols |-> AqiCols,
            rows |-> <<AqiRow(Text.Illinois, Text.Lake_County, IntCell(2), 40),
                       AqiRow(Text.Illinois, Text.Lake, IntCell(2), 50)>>]),
      File([cols |-> AqiCols,
            rows |-> <<AqiRow(Text.Illinois, Text.Cook_County, IntCell(2), 40),
                       AqiRow(Text.Illinois, Text.Cook_County, Dec1Cell(25), 50)>>]) }

\* the identifiers a LEAD row can carry
LeadIds == {IntCell(1), FloatCell(2)}

LeadTable(ids) ==
    [cols |-> <<Label.GeographyID, Label.Burden_raw>>,
     rows |-> [r \in 1..Len(ids) |-> <<ids[r], IntCell(r)>>]]

\* the LEAD CSV: absent, without its 'Geography ID' column, or with up to
\* MaxLeadRows rows
LeadFiles ==
    { MissingFile,
      File(KeepCols(LeadTable(<<IntCell(1)>>), <<Label.Burden_raw>>)) }
    \cup { File(LeadTable(ids)) :
            ids \in UNION {[1..k -> LeadIds] : k \in 0..MaxLeadRows} }

XlsbPreamble == << <<>>, <<>>, <<>>, <<>> >>
XlsbFile(lib, exists, rows) == [pyxlsb |-> lib, exists |-> exists, rows |-> rows]

\* the XLSB workbook: pyxlsb not installed; file absent; a County sheet of
\* five rows; a header without county_id; two data rows (one of another
\* state); county_id twice in the header, the first an empty column
XlsbFiles ==
    { XlsbFile(FALSE, TRUE, <<>>),
      XlsbFile(TRUE, FALSE, <<>>),
      XlsbFile(TRUE, TRUE, XlsbPreamble
        \o << <<StrCell(Label.state_abbr), StrCell(Label.county_id), StrCell(Label.cons_raw)>> >>),
      XlsbFile(TRUE, TRUE, XlsbPreamble
        \o << <<StrCell(Label.state_abbr), StrCell(Label.cons_raw)>>,
              <<StrCell(Text.IL), FloatCell(7)>> >>),
      XlsbFile(TRUE, TRUE, XlsbPreamble
        \o << <<StrCell(Label.state_abbr), StrCell(Label.county_id), StrCell(Label.cons_raw)>>,
              <<StrCell(Text.IL), FloatCell(1), FloatCell(7)>>,
              <<StrCell(Text.IA), FloatCell(2), FloatCell(9)>> >>),
      XlsbFile(TRUE, TRUE, XlsbPreamble
        \o << <<StrCell(Label.state_abbr), StrCell(Label.county_id), StrCell(Label.county_id),
                StrCell(Label.cons_raw)>>,
              <<StrCell(Text.il), NaCell, FloatCell(2), FloatCell(7)>> >>) }

-----------------------------------------------------------------------------
(* The mandatory reads: io.py 7-28, make_map.py 195-202,                   *)
(* streamlit_app.py 134-141                                                *)

NoError == [type |-> "none", names |-> "none"]
ReadOk(t) == [ok |-> TRUE, table |-> t, err |-> NoError]
ReadFail(type, names) ==
    [ok |-> FALSE, table |-> EmptyTable, err |-> [type |-> type, names |-> names]]

\* mutant: the existence check is gone and whatever is there is parsed
read_csv_nocheck(f, path) == ReadOk(f.table)

\* pd.read_csv: a missing file raises FileNotFoundError naming the path
pd_read_csv(f, path) ==
    IF ~f.exists THEN ReadFail("FileNotFoundError", path) ELSE ReadOk(f.table)

\* gpd.read_file: a missing file raises the error e of the I/O engine in
\* use, naming the path
GpdErrors == {"DataSourceError", "DriverError"}
gpd_read_file(f, path, e) ==
    IF ~f.exists THEN ReadFail(e, path) ELSE ReadOk(f.table)

\* io.py 7-11
read_csv(f, path) ==
    IF ~f.exists THEN ReadFail("FileNotFoundError", path)
    ELSE pd_read_csv(f, path)

\* io.py 14-28
read_geographic_data(f, path, e) ==
    IF ~f.exists THEN ReadFail("FileNotFoundError", path)
    ELSE gpd_read_file(f, path, e)

-----------------------------------------------------------------------------
(* The two entry points: make_map.main (make_map.py 189-352) and the       *)
(* Streamlit script (streamlit_app.py 119-281)                             *)

\* make_map.py 205-208 / streamlit_app.py 143-144: the GEOID of the boundary
\* file and of the base statistics, as each entry point normalizes it
NormCountiesKey(e, c) ==
    IF e = "make_map" THEN zfill(Strip(CellStr(c)), FipsWidth)
    ELSE zfill(CellStr(c), FipsWidth)
NormStatsKey(e, c) ==
    IF e = "make_map"
    THEN zfill(Replace(Strip(CellStr(c)), <<".", "0">>, <<>>), FipsWidth)
    ELSE zfill(CellStr(c), FipsWidth)

\* mutant: a failure of an optional step is not caught
AfterTry_raise(ok, next) == IF ok THEN next ELSE "aborted"

\* except Exception as e: print / st.warning -- whatever the try block did,
\* control goes on to the statement after it
AfterTry(ok, next) == next

IdlePipe ==
    /\ entry = "none"
    /\ show_context_layers = FALSE
    /\ disk = [sites |-> MissingFile, counties |-> FALSE, stats |-> FALSE]
    /\ pc = "idle"
    /\ sites = EmptyTable
    /\ counties = EmptyTable
    /\ county_stats = EmptyTable
    /\ raw_keys = [counties |-> <<>>, stats |-> <<>>]
    /\ counties_layer = NoneTable
    /\ source = [step |-> "none", file |-> MissingFile]
    /\ warnings = <<>>
    /\ err = NoError
    /\ map_built = FALSE
    /\ map_saved = FALSE

\* make_map.main always reconciles the county table; the Streamlit script
\* does so when the checkbox is ticked
InitPipe ==
    /\ entry \in {"make_map", "streamlit"}
    /\ show_context_layers \in (IF entry = "make_map" THEN {TRUE} ELSE BOOLEAN)
    /\ disk \in [sites : SitesFiles, counties : BOOLEAN, stats : BOOLEAN]
    /\ pc = "read_sites"
    /\ sites = EmptyTable
    /\ counties = EmptyTable
    /\ county_stats = EmptyTable
    /\ raw_keys = [counties |-> <<>>, stats |-> <<>>]
    /\ counties_layer = NoneTable
    /\ source = [step |-> "none", file |-> MissingFile]
    /\ warnings = <<>>
    /\ err = NoError
    /\ map_built = FALSE
    /\ map_saved = FALSE

\* an uncaught exception ends the run
Abort(e) ==
    /\ pc' = "aborted"
    /\ err' = e
    /\ UNCHANGED <<entry, show_context_layers, disk, sites, counties,
                   county_stats, raw_keys, counties_layer, source, warnings,
                   map_built, map_saved>>

\* make_map.py 196 / streamlit_app.py 134
ReadSites ==
    /\ pc = "read_sites"
    /\ LET r == IF entry = "make_map" THEN read_csv(disk.sites, IL_SITES_CSV)
                ELSE pd_read_csv(disk.sites, IL_SITES_CSV)
       IN  IF ~r.ok THEN Abort(r.err)
           ELSE /\ sites' = r.table
                /\ pc' = IF show_context_layers THEN "read_counties" ELSE "build"
                /\ UNCHANGED <<entry, show_context_layers, disk, counties,
                               county_stats, raw_keys, counties_layer, source,
                               warnings, err, map_built, map_saved>>

\* make_map.py 199 / streamlit_app.py 140
ReadCounties ==
    /\ pc = "read_counties"
    /\ \E hasName \in BOOLEAN, e \in GpdErrors :
        LET f == IF disk.counties
                 THEN File(CountiesTable(MaxCounties, hasName)) ELSE MissingFile
            r == IF entry = "make_map"
                 THEN read_geographic_data(f, IL_COUNTY_BOUNDARIES_SHP, e)
                 ELSE gpd_read_file(f, IL_COUNTY_BOUNDARIES_SHP, e)
        IN  IF ~r.ok THEN Abort(r.err)
            ELSE /\ counties' = r.table
                 /\ pc' = "read_stats"
                 /\ UNCHANGED <<entry, show_context_layers, disk, sites,
                                county_stats, raw_keys, counties_layer, source,
                                warnings, err, map_built, map_saved>>

\* make_map.py 202 / streamlit_app.py 141
ReadStats ==
    /\ pc = "read_stats"
    /\ \E t \in StatsTables :
        LET f == IF disk.stats THEN File(t) ELSE MissingFile
            r == pd_read_csv(f, IL_COUNTY_STATS_ENHANCED_CSV)
        IN  IF ~r.ok THEN Abort(r.err)
            ELSE /\ county_stats' = r.table
                 /\ pc' = "normalize"
                 /\ UNCHANGED <<entry, show_context_layers, disk, sites,
                                counties, raw_keys, counties_layer, source,
                                warnings, err, map_built, map_saved>>

\* make_map.py 205-208 / streamlit_app.py 143-144; raw_keys remembers the
\* identifiers as they were read
NormalizeGeoid ==
    /\ pc = "normalize"
    /\ raw_keys' = [counties |-> Col(counties, Label.GEOID),
                    stats |-> Col(county_stats, Label.GEOID)]
    /\ counties' = SetCol(counties, Label.GEOID,
            [r \in 1..Len(counties.rows) |->
                StrCell(NormCountiesKey(entry, Col(counties, Label.GEOID)[r]))])
    /\ county_stats' = SetCol(county_stats, Label.GEOID,
            [r \in 1..Len(county_stats.rows) |->
                StrCell(NormStatsKey(entry, Col(county_stats, Label.GEOID)[r]))])
    /\ pc' = "simplify"
    /\ UNCHANGED <<entry, show_context_layers, disk, sites, counties_layer,
                   source, warnings, err, map_built, map_saved>>

\* make_map.py 211-216 (a failure is swallowed) / streamlit_app.py 146-148
\* (a failure is not)
SimplifyGeometry ==
    /\ pc = "simplify"
    /\ \E ok \in BOOLEAN :
        IF ~ok /\ entry = "streamlit"
        THEN Abort([type |-> "Exception", names |-> "none"])
        ELSE /\ counties' =
                    IF ok THEN SetCol(counties, Label.geometry,
                                [r \in 1..Len(counties.rows) |->
                                    StrCell(Text.geom_simplified)])
                    ELSE counties
             /\ pc' = "merge_base"
             /\ UNCHANGED <<entry, show_context_layers, disk, sites,
                            county_stats, raw_keys, counties_layer, source,
                            warnings, err, map_built, map_saved>>

\* make_map.py 218-225 / streamlit_app.py 150-156
MergeBase ==
    /\ pc = "merge_base"
    /\ LET merged == _ensure_unique_gdf_columns(
                        Merge(counties, county_stats, Label.GEOID, Label.GEOID))
       IN  counties_layer' = SetCol(merged, Label.NAME_clean,
                [r \in 1..Len(merged.rows) |->
                    IF HasCol(merged, Label.NAME)
                    THEN StrCell(Upper(Strip(CellStr(Col(merged, Label.NAME)[r]))))
                    ELSE StrCell(<<>>)])
    /\ pc' = "aqi"
    /\ UNCHANGED <<entry, show_context_layers, disk, sites, counties,
                   county_stats, raw_keys, source, warnings, err, map_built,
                   map_saved>>

\* one try/except block: res is what the body of the try did on file f
OptionalStep(step, f, res, next) ==
    /\ pc = step
    /\ source' = [step |-> step, file |-> f]
    /\ counties_layer' = res.table
    /\ warnings' = IF res.ok THEN warnings
                   ELSE Append(warnings, [source |-> step, error |-> res.error])
    /\ pc' = AfterTry(res.ok, next)
    /\ UNCHANGED <<entry, show_context_layers, disk, sites, counties,
                   county_stats, raw_keys, err, map_built, map_saved>>

\* make_map.py 227-269 / streamlit_app.py 158-196
AqiStep ==
    \E f \in AqiFiles : OptionalStep("aqi", f, AqiMerge(counties_layer, f), "lead")

\* make_map.py 271-296 / streamlit_app.py 198-223
LeadStep ==
    \E f \in LeadFiles : OptionalStep("lead", f, LeadMerge(counties_layer, f), "xlsb")

\* make_map.py 298-328 / streamlit_app.py 225-255
XlsbStep ==
    \E f \in XlsbFiles : OptionalStep("xlsb", f, XlsbMerge(counties_layer, f), "build")

\* make_map.py 331-336 / streamlit_app.py 258-263: build_illinois_map drops
\* the sites without coordinates first (build_map.py 190), a KeyError when
\* the table has no lat or lon column
BuildMap ==
    /\ pc = "build"
    /\ IF ~HasCol(sites, Label.lat) \/ ~HasCol(sites, Label.lon)
       THEN Abort([type |-> "KeyError", names |-> "none"])
       ELSE /\ map_built' = TRUE
            /\ pc' = IF entry = "make_map" THEN "save" ELSE "render"
            /\ UNCHANGED <<entry, show_context_layers, disk, sites, counties,
                           county_stats, raw_keys, counties_layer, source,
                           warnings, err, map_saved>>

\* make_map.py 339-352
SaveMap ==
    /\ pc = "save"
    /\ map_saved' = TRUE
    /\ pc' = "done"
    /\ UNCHANGED <<entry, show_context_layers, disk, sites, counties,
                   county_stats, raw_keys, counties_layer, source, warnings,
                   err, map_built>>

\* streamlit_app.py 265-281
RenderMap ==
    /\ pc = "render"
    /\ pc' = "done"
    /\ UNCHANGED <<entry, show_context_layers, disk, sites, counties,
                   county_stats, raw_keys, counties_layer, source, warnings,
                   err, map_built, map_saved>>

-----------------------------------------------------------------------------
(* build_illinois_map: build_map.py 9-14, 103-164, 167-441                 *)

\* Python None (also what row.get gives for an absent column) and pd.NA
NoneCell == [kind |-> "none", s |-> <<>>, n |-> 0]
PdNACell == [kind |-> "na", s |-> <<>>, n |-> 0]

\* pd.isna(val)
IsNA(c) == c.kind \in {"nan", "none", "na"}

\* str(val)
PyStr(c) ==
    CASE c.kind = "none" -> Text.None
      [] c.kind = "na" -> Text.NA
      [] OTHER -> CellStr(c)

\* build_map.py 9-14: None and a float NaN give "", anything else str(val)
_safe_text(val) ==
    IF val.kind = "none" THEN <<>>
    ELSE IF val.kind = "nan" THEN <<>>
    ELSE PyStr(val)

\* pat in s
Contains(s, pat) ==
    \E i \in 1..(Len(s) - Len(pat) + 1) : SubSeq(s, i, i + Len(pat) - 1) = pat

\* row.get(label) on a row of table t
RowGet(t, row, label) ==
    IF HasCol(t, label) THEN row[ColIndex(t, label)] ELSE NoneCell

\* a DataFrame object: obj names the object, t is its content
Frame(obj, t) == [obj |-> obj, t |-> t]

\* mutant: no copy is taken, the same object is worked on
DataFrame_copy_alias(d) == d

\* DataFrame.copy(): a new object with the same content
DataFrame_copy(d) == [obj |-> <<"copy", d.obj>>, t |-> d.t]

\* df.dropna(subset=["lat", "lon"])
DropNaLatLon(t) ==
    FilterRows(t, LAMBDA row : /\ ~IsNA(row[ColIndex(t, Label.lat)])
                               /\ ~IsNA(row[ColIndex(t, Label.lon)]))

\* df[label] = pd.to_numeric(df[label], errors="coerce") on a column without
\* missing values: a cell that is not a number becomes NaN
NumericCol(t, label) ==
    SetCol(t, label,
        [r \in 1..Len(t.rows) |->
            LET x == ToNumeric(Col(t, label)[r])
            IN  IF x.nan THEN NaCell
                ELSE IF x.den = 1 THEN FloatCell(x.num)
                ELSE Dec1Cell((10 * x.num) \div x.den)])

\* build_map.py 187-193: the cleaned site table
CleanLayer(t) ==
    IF HasCol(t, Label.layer)
    THEN SetCol(t, Label.layer,
            [r \in 1..Len(t.rows) |->
                StrCell(Lower(Strip(PyStr(Col(t, Label.layer)[r]))))])
    ELSE t

\* mutant: the rows that to_numeric turned into NaN are not dropped
CleanCoordinates_once(t) ==
    NumericCol(NumericCol(DropNaLatLon(t), Label.lat), Label.lon)

\* build_map.py 190-193: dropna, to_numeric on lat and lon, dropna
CleanCoordinates(t) ==
    DropNaLatLon(NumericCol(NumericCol(DropNaLatLon(t), Label.lat),
                            Label.lon))

\* the fields of the popup of add_site_marker (build_map.py 376-396) and of
\* the additional-infrastructure popup (413-419)
PopupFields ==
    <<Label.name, Label.layer, Label.Poverty_Rate_Percent, Label.Pct_Minority,
      Label.Median_Household_Income, Label.surroundings_snapshot,
      Label.community_signals, Label.stressors, Label.sources>>
PopupFieldsInventory == <<Label.name, Label.sources>>

\* folium.Marker(location, tooltip, popup).add_to(group): build_map.py 398-403
\* and 420-425
Marker(t, row, group, fields) ==
    [group |-> group,
     row |-> row,
     location |-> <<row[ColIndex(t, Label.lat)],
                    row[ColIndex(t, Label.lon)]>>,
     tooltip |-> _safe_text(RowGet(t, row, Label.name)),
     popup |-> [k \in 1..Len(fields) |->
                    <<fields[k], _safe_text(RowGet(t, row, fields[k]))>>]]

\* mutant: the status is tested before the additional-infrastructure marker
SiteGroup_status_first(t, row) ==
    LET layer_val == Lower(Strip(_safe_text(RowGet(t, row, Label.layer))))
        site_id == _safe_text(RowGet(t, row, Label.site_id))
        layer_text_raw == _safe_text(RowGet(t, row, Label.layer))
        is_inv == \/ Contains(site_id, Text.INV)
                  \/ Contains(Lower(layer_text_raw), Text.inventory)
                  \/ Contains(Lower(layer_text_raw), Text.reserve)
    IN  IF layer_val = Text.existing THEN "existing"
        ELSE IF layer_val = Text.denied THEN "denied"
        ELSE IF is_inv THEN "inventory"
        ELSE "proposed"

\* build_map.py 405-433: the layer one row of the cleaned table goes to
SiteGroup(t, row) ==
    LET layer_val == Lower(Strip(_safe_text(RowGet(t, row, Label.layer))))
        site_id == _safe_text(RowGet(t, row, Label.site_id))
        layer_text_raw == _safe_text(RowGet(t, row, Label.layer))
        is_inv == \/ Contains(site_id, Text.INV)
                  \/ Contains(Lower(layer_text_raw), Text.inventory)
                  \/ Contains(Lower(layer_text_raw), Text.reserve)
    IN  IF is_inv THEN "inventory"
        ELSE IF layer_val = Text.existing THEN "existing"
        ELSE IF layer_val = Text.denied THEN "denied"
        ELSE "proposed"

\* the markers of the loop over df.iterrows(), in row order
SiteMarkers(t) ==
    [r \in 1..Len(t.rows) |->
        LET g == SiteGroup(t, t.rows[r])
        IN  Marker(t, t.rows[r], g,
                   IF g = "inventory" THEN PopupFieldsInventory
                   ELSE PopupFields)]

\* the county metrics a choropleth is offered for, in the order of
\* build_map.py 225-310, each with the title of its legend
Choropleths ==
    << [value_col |-> Label.Impact_Score,
        title |-> "Community Impact Score (higher = more vulnerable)"],
       [value_col |-> Label.Poverty_Rate_Percent, title |-> "County Poverty Rate (%)"],
       [value_col |-> Label.Pct_Minority, title |-> "County Minority Population (%)"],
       [value_col |-> Label.AQI_P90,
        title |-> "90th Percentile AQI (higher = worse air)"],
       [value_col |-> Label.Ozone_Days,
        title |-> "Ozone Days (higher = more ozone days)"],
       [value_col |-> Label.PM25_Days,
        title |-> "PM2.5 Days (higher = more PM2.5 days)"] >>

\* mutant: a layer is added even when the column has no numeric value
_add_geojson_choropleth_always(gdf, value_col) == TRUE

\* build_map.py 103-164: TRUE when the layer is added and its legend markup
\* returned, FALSE for (None, None)
_add_geojson_choropleth(gdf, value_col) ==
    Valid(ToNumericSeries(Col(gdf, value_col))) # {}

\* the fields of the hover tooltip: build_map.py 322-331
TooltipFields ==
    <<Label.NAME, Label.Impact_Score, Label.Poverty_Rate_Percent, Label.Pct_Minority, Label.AQI_P90,
      Label.AQI_Median, Label.AQI_Max, Label.Ozone_Days, Label.PM25_Days,
      Label.AQI_Days_Total>>

\* the three dashed cluster circles: build_map.py 349-368
ImpactClusters ==
    << "Elk Grove Village cluster", "Chicago core cluster",
       "DeKalb area cluster" >>

\* DataFrame.empty
IsEmptyFrame(t) == t.cols = <<>> \/ t.rows = <<>>

\* build_map.py 216-217: cl["GEOID"] = cl["GEOID"].astype(str)
GeoidAsStr(d) ==
    IF HasCol(d.t, Label.GEOID)
    THEN [d EXCEPT !.t = SetCol(d.t, Label.GEOID,
            [r \in 1..Len(d.t.rows) |-> StrCell(CellStr(Col(d.t, Label.GEOID)[r]))])]
    ELSE d

\* build_map.py 219-220: cl["NAME"] = cl["name"]
NameFromLowerCase(d) ==
    IF ~HasCol(d.t, Label.NAME) /\ HasCol(d.t, Label.name)
    THEN [d EXCEPT !.t = SetCol(d.t, Label.NAME, Col(d.t, Label.name))]
    ELSE d

\* build_map.py 223: cl = _compute_impact_score(cl), where line 33 copies
\* its argument: the table returned (scored), and the content of the
\* argument object after the call
ScoreCallOf(d, scored) ==
    [result |-> scored,
     arg_after |-> IF DataFrame_copy(d).obj = d.obj THEN scored ELSE d.t]
ScoreCall(d) == ScoreCallOf(d, _compute_impact_score(d.t))

\* build_map.py 225-310: the choropleths added for the scored table cl, in
\* order
AddedChoropleths(cl) ==
    SelectSeq(Choropleths, LAMBDA ch :
        /\ HasCol(cl, ch.value_col)
        /\ _add_geojson_choropleth(cl, ch.value_col))

\* build_map.py 225-346: the choropleth layers, their legends, and the hover
\* layer
LayersOf(cl, added) ==
    [choropleths |-> [k \in 1..Len(added) |-> added[k].value_col],
     legends |-> [k \in 1..Len(added) |-> added[k].title],
     tooltip |-> SelectSeq(TooltipFields, LAMBDA f : HasCol(cl, f)),
     hover |-> TRUE]

\* build_map.py 213-346 on the county table cl_in (an object): what is added
\* to the map, and the content of the object cl_in after it; cl2 is the
\* object after line 220, call the outcome of line 223
CountyLayersOf(cl_in, cl2, call) ==
    [layers |-> LayersOf(call.result, AddedChoropleths(call.result)),
     arg_after |-> IF cl2.obj = cl_in.obj THEN call.arg_after ELSE cl_in.t]
CountyLayersFrom(cl_in, cl2) == CountyLayersOf(cl_in, cl2, ScoreCall(cl2))
CountyLayers(cl_in) ==
    CountyLayersFrom(cl_in,
                     NameFromLowerCase(GeoidAsStr(DataFrame_copy(cl_in))))

NoCountyLayers(cl_in) ==
    [layers |-> [choropleths |-> <<>>, legends |-> <<>>, tooltip |-> <<>>,
                 hover |-> FALSE],
     arg_after |-> cl_in.t]

\* build_map.py 195-441 on the cleaned site table df and the outcome of the
\* county block
MapWith(df, county, sites_after) ==
    [ok |-> TRUE, error |-> "none", df |-> df,
     county |-> county.layers,
     clusters |-> ImpactClusters,
     markers |-> SiteMarkers(df),
     sites_after |-> sites_after,
     counties_after |-> county.arg_after]

\* build_map.py 190-441 on df1, the site table after line 188
MapOf(df1, sites_after, counties_arg) ==
    IF ~HasCol(df1, Label.lat) \/ ~HasCol(df1, Label.lon)
    THEN [ok |-> FALSE, error |-> "KeyError", df |-> df1,
          county |-> NoCountyLayers(Frame("counties_layer", counties_arg)).layers,
          clusters |-> <<>>, markers |-> <<>>,
          sites_after |-> sites_after, counties_after |-> counties_arg]
    ELSE MapWith(CleanCoordinates(df1),
                 IF counties_arg # NoneTable /\ ~IsEmptyFrame(counties_arg)
                 THEN CountyLayers(Frame("counties_layer", counties_arg))
                 ELSE NoCountyLayers(Frame("counties_layer", counties_arg)),
                 sites_after)

\* the caller's site table after line 188, df0 being the object line 185
\* binds to df
SitesAfter(sites_arg, df0) ==
    IF df0.obj = "sites" THEN CleanLayer(df0.t) ELSE sites_arg

\* build_map.py 167-441. The result: ok is FALSE when the call raised
\* (KeyError at line 190 for a site table without lat / lon); markers are the
\* markers of the four site layers in row order; sites_after and
\* counties_after are the contents of the caller's two tables after the call
build_illinois_map(sites_arg, counties_arg) ==
    MapOf(CleanLayer(sites_arg),
          SitesAfter(sites_arg, DataFrame_copy(Frame("sites", sites_arg))),
          counties_arg)

\* the tables handed to build_illinois_map: either the sites or the county
\* table is varied
MapInputs ==
    LET
        \* the columns of the modelled sites CSV
        SiteCols ==
            <<Label.site_id, Label.layer, Label.lat, Label.lon,
              Label.name, Label.surroundings_snapshot,
              Label.community_signals, Label.stressors, Label.sources>>

        SiteRow(id, status, lat, lon, name, text) ==
            <<id, status, lat, lon, name, text, text, text, text>>

        \* site rows that differ in identifier and status, with coordinates and text
        StatusRows ==
            { SiteRow(id, st, IntCell(41), IntCell(89),
                      StrCell(Text.a_name), StrCell(Text.a_note)) :
                id \in {StrCell(Text.id_INV123), StrCell(Text.id_inv123), NaCell},
                st \in {StrCell(Text.st_Existing), StrCell(Text.denied),
                        StrCell(Text.st_Inventory), StrCell(Text.st_reserve),
                        StrCell(Text.st_planned), NaCell} }

        \* site rows that differ in their coordinates: missing, not numeric, numeric
        \* text
        CoordinateRows ==
            { SiteRow(StrCell(Text.id_A1), StrCell(Text.existing), c[1], c[2],
                      StrCell(Text.a_name), StrCell(Text.a_note)) :
                c \in { <<NaCell, IntCell(89)>>, <<IntCell(41), NaCell>>,
                        <<StrCell(Text.not_a_number), IntCell(89)>>,
                        <<IntCell(41), StrCell(Text.not_a_number)>>,
                        <<StrCell(Text.digits), Dec1Cell(895)>>,
                        <<PdNACell, NoneCell>> } }

        \* site rows that differ in their free text: present or one of the missing
        \* values
        TextRows ==
            { SiteRow(StrCell(Text.id_A1), StrCell(Text.denied),
                      IntCell(41), IntCell(89), v[1], v[2]) :
                v \in { <<NaCell, StrCell(Text.a_note)>>,
                        <<NoneCell, StrCell(Text.a_note)>>,
                        <<PdNACell, StrCell(Text.a_note)>>,
                        <<StrCell(Text.a_name), NaCell>>,
                        <<StrCell(Text.a_name), NoneCell>>,
                        <<StrCell(Text.a_name), PdNACell>> } }

        SiteRows == StatusRows \cup CoordinateRows \cup TextRows

        \* the site tables handed to build_illinois_map: up to MaxSites rows with
        \* every column, a table with coordinates only, a table without them
        SiteTables ==
            { [cols |-> SiteCols, rows |-> rows] :
                rows \in UNION {[1..k -> SiteRows] : k \in 0..MaxSites} }
            \cup { [cols |-> <<Label.lat, Label.lon>>,
                    rows |-> << <<IntCell(41), IntCell(89)>> >>],
                   [cols |-> <<Label.name, Label.layer>>,
                    rows |-> << <<StrCell(Text.a_name),
                                  StrCell(Text.existing)>> >>] }

        \* one metric column of a modelled county table: "absent", or its cells
        MetricCell(how, r) ==
            CASE how = "nan" -> NaCell
              [] how = "text" -> StrCell(Text.not_a_number)
              [] how = "num" -> IntCell(10 * r)

        \* the metric columns of the modelled county tables, by how each is filled
        MetricLabels ==
            <<Label.Poverty_Rate_Percent, Label.Pct_Minority, Label.AQI_P90, Label.Ozone_Days, Label.PM25_Days>>
        MetricFillings ==
            [1..2 -> {"absent", "nan", "num"}]
        MetricFillingsAqi ==
            [3..5 -> {"absent", "text", "num"}]

        CountyTableOf(rows, nameLabel, how) ==
            LET present == SelectSeq([i \in 1..Len(MetricLabels) |-> i],
                                     LAMBDA i : how[i] # "absent")
            IN  [cols |-> <<Label.GEOID>>
                          \o (IF nameLabel = NoneLabel THEN <<>> ELSE <<nameLabel>>)
                          \o [k \in 1..Len(present) |-> MetricLabels[present[k]]],
                 rows |-> [r \in 1..rows |->
                            <<IntCell(r)>>
                            \o (IF nameLabel = NoneLabel THEN <<>>
                                ELSE <<StrCell(CountyName(r))>>)
                            \o [k \in 1..Len(present) |->
                                    MetricCell(how[present[k]], r)]]]

        \* the county tables handed to build_illinois_map: None, a table without
        \* rows, and tables of MaxCounties counties
        CountyTables ==
            { NoneTable, [cols |-> <<Label.GEOID, Label.Poverty_Rate_Percent>>, rows |-> <<>>] }
            \cup { CountyTableOf(MaxCounties, nm, a @@ b) :
                    nm \in {NoneLabel, Label.NAME, Label.name},
                    a \in MetricFillings, b \in MetricFillingsAqi }
    IN
        [sites : SiteTables, counties : {NoneTable}]
        \cup [sites : {[cols |-> SiteCols,
                        rows |-> << SiteRow(StrCell(Text.id_A1),
                                            StrCell(Text.existing),
                                            IntCell(41), IntCell(89),
                                            StrCell(Text.a_name),
                                            StrCell(Text.a_note)) >>]},
              counties : CountyTables]

NoResult ==
    [ok |-> FALSE, error |-> "none", df |-> EmptyTable,
     county |-> NoCountyLayers(Frame("counties_layer", NoneTable)).layers,
     clusters |-> <<>>, markers |-> <<>>,
     sites_after |-> EmptyTable, counties_after |-> NoneTable]

IdleMap ==
    /\ bm_args = [sites |-> EmptyTable, counties |-> NoneTable]
    /\ bm_sites = EmptyTable
    /\ bm_counties = NoneTable
    /\ bm_out = NoResult
    /\ bm_pc = "idle"

InitMap ==
    /\ bm_args \in MapInputs
    /\ bm_sites = bm_args.sites
    /\ bm_counties = bm_args.counties
    /\ bm_out = NoResult
    /\ bm_pc = "in"

\* m, legends = build_illinois_map(sites=sites, counties_layer=counties_layer)
BuildIllinoisMap ==
    /\ bm_pc = "in"
    /\ LET out == build_illinois_map(bm_sites, bm_counties)
       IN  /\ bm_out' = out
           /\ bm_sites' = out.sites_after
           /\ bm_counties' = out.counties_after
           /\ bm_pc' = IF out.ok THEN "built" ELSE "raised"
    /\ UNCHANGED bm_args

-----------------------------------------------------------------------------
(* Claims about the identifier normalizer and the column deduplicator      *)

\* C1: _coerce_fips is idempotent: for every input identifier x,
\* _coerce_fips(_coerce_fips(x)) equals _coerce_fips(x).
C1_Idempotent == fips_pc = "twice" => fips_twice = fips_once

\* C2 as stated: the output of _coerce_fips always has exactly 5 characters,
\* never shorter and never longer, whatever the length of the input.
C2_ExactlyFive == fips_pc \in {"once", "twice"} => Len(fips_once) = FipsWidth

\* C2 as amended: the output is the stripped, ".0"-free value preceded by
\* '0' characters up to width 5; it has at least 5 characters, exactly 5
\* whenever the rendered input has at most 5, and is never truncated.
C2_PaddedToFive ==
    fips_pc \in {"once", "twice"} =>
        LET cleaned == Replace(Strip(AsStr(fips_in)), <<".", "0">>, <<>>)
            k == Len(fips_once) - Len(cleaned)
        IN  /\ Len(fips_once) >= FipsWidth
            /\ Len(AsStr(fips_in)) <= FipsWidth => Len(fips_once) = FipsWidth
            /\ k >= 0
            /\ k > 0 => Len(fips_once) = FipsWidth
            /\ \A i \in 1..k : fips_once[i] = "0"
            /\ SubSeq(fips_once, k + 1, Len(fips_once)) = cleaned

\* C2 witness: the float 12.0 has been normalized to "00012".
C2_Witness ==
    /\ fips_pc = "once"
    /\ fips_in.kind = "float"
    /\ fips_in.n = 12
    /\ fips_once = <<"0", "0", "0", "1", "2">>

\* the canonical form C8 defines: trim, drop one trailing ".0" if present,
\* left-pad with '0' to width 5
CanonicalFips(x) ==
    LET s == Strip(AsStr(x))
        n == Len(s)
        cut == IF n >= 2 /\ SubSeq(s, n - 1, n) = <<".", "0">>
               THEN SubSeq(s, 1, n - 2) ELSE s
    IN  IF Len(cut) >= FipsWidth THEN cut
        ELSE [i \in 1..(FipsWidth - Len(cut)) |-> "0"] \o cut

\* C8: _coerce_fips returns the canonical form: whitespace trimmed, only a
\* trailing ".0" removed, left-padded to 5; a ".0" elsewhere is kept.
C8_TrailingOnly ==
    fips_pc \in {"once", "twice"} => fips_once = CanonicalFips(fips_in)

\* C3: _make_unique_columns returns as many labels as it was given, none of
\* them repeated.
C3_UniqueLabels ==
    cols_pc = "out" =>
        /\ Len(cols_out) = Len(cols_in)
        /\ \A i, j \in 1..Len(cols_out) : i # j => cols_out[i] # cols_out[j]

-----------------------------------------------------------------------------
(* Claims about the score computation                                      *)

\* the column _minmax was applied to, as numbers
MinmaxInput == ToNumericSeries(Col(sc_in, sc_mm.col))

AllValidEqual(s) == \A i, j \in Valid(s) : s[i] = s[j]

\* no entry of the result is the outcome of a division by zero
NoDivisionByZero(out) == \A i \in 1..Len(out) : out[i].nan \/ out[i].den > 0

\* C9 as stated: _minmax never raises; when the non-missing values of the
\* column are all equal it returns zero for every entry of the column; on an
\* empty or all-missing column it returns an all-missing column of the same
\* length.
C9_ZeroForEveryEntry ==
    sc_pc = "minmax" =>
        LET s == MinmaxInput
            out == sc_mm.out
        IN  /\ Len(out) = Len(s)
            /\ NoDivisionByZero(out)
            /\ (Valid(s) # {} /\ AllValidEqual(s)) =>
                    \A i \in 1..Len(s) : out[i] = Rat(0, 1)
            /\ Valid(s) = {} => \A i \in 1..Len(s) : out[i].nan

\* C9 as amended: _minmax never raises; when the non-missing values of the
\* column are all equal it returns zero for every non-missing entry and
\* missing for every missing entry; on an empty or all-missing column it
\* returns an all-missing column of the same length.
C9_ZeroForPresentEntries ==
    sc_pc = "minmax" =>
        LET s == MinmaxInput
            out == sc_mm.out
        IN  /\ Len(out) = Len(s)
            /\ NoDivisionByZero(out)
            /\ (Valid(s) # {} /\ AllValidEqual(s)) =>
                    \A i \in 1..Len(s) :
                        out[i] = IF s[i].nan THEN NaN ELSE Rat(0, 1)
            /\ Valid(s) = {} => \A i \in 1..Len(s) : out[i].nan

\* C9 witness: _minmax has run on a column holding a missing entry next to
\* equal non-missing ones, giving missing and zero.
C9_Witness ==
    /\ sc_pc = "minmax"
    /\ LET s == MinmaxInput
       IN  /\ Valid(s) # {}
           /\ Valid(s) # 1..Len(s)
           /\ AllValidEqual(s)
           /\ \E i, j \in 1..Len(s) : sc_mm.out[i] = Rat(0, 1) /\ sc_mm.out[j].nan

\* C10: with every Poverty_Rate_Percent and Pct_Minority value missing or in
\* [0,100], every county's Impact_Score is missing or within [0,100] (held in
\* tenths: 0..1000).
C10_ScoreInRange ==
    sc_pc = "scored" =>
        /\ HasCol(sc_out, Label.Impact_Score)
        /\ Len(sc_out.rows) = Len(sc_in.rows)
        /\ \A r \in 1..Len(sc_out.rows) :
            LET c == Col(sc_out, Label.Impact_Score)[r]
            IN  \/ c = NaCell
                \/ c.kind = "dec1" /\ c.n >= 0 /\ c.n <= 1000

\* C10 witness: a scored table holding both ends of the range, 0.0 and 100.0.
C10_Witness ==
    /\ sc_pc = "scored"
    /\ \E r1, r2 \in 1..Len(sc_out.rows) :
        /\ Col(sc_out, Label.Impact_Score)[r1] = Dec1Cell(0)
        /\ Col(sc_out, Label.Impact_Score)[r2] = Dec1Cell(1000)

\* the input named label of county r is there and numeric
InputPresent(label, r) ==
    HasCol(sc_in, label) /\ ~ToNumeric(Col(sc_in, label)[r]).nan

\* (v - min) / (max - min) over the counties with a numeric value, 0 when
\* they all agree
RefNormalized(label, r) ==
    LET s == ToNumericSeries(Col(sc_in, label))
        lo == SeriesMin(s)
        hi == SeriesMax(s)
    IN  IF hi = lo THEN Rat(0, 1)
        ELSE Rat((s[r].num * lo.den - lo.num * s[r].den) * hi.den * lo.den,
                 (hi.num * lo.den - lo.num * hi.den) * s[r].den * lo.den)

\* cell is the exact 100 * (0.55 * p + 0.45 * q) rounded to one decimal: a
\* value in tenths at most half a tenth away
IsRoundedScore(cell, p, q) ==
    LET num == W_POVERTY * p.num * q.den + W_MINORITY * q.num * p.den
        den == p.den * q.den
    IN  /\ cell.kind = "dec1"
        /\ 2 * Abs(cell.n * den - 10 * num) <= den

\* C11: for every county, Impact_Score is 100 * (0.55 * minmax(poverty) +
\* 0.45 * minmax(minority)) rounded to one decimal, minmax taken over the
\* counties with a value; a county missing either input, or a table missing
\* either column, gets a missing score; a single county with both inputs
\* scores 0.0; poverty 10 and 30 contribute 0 and 55.
C11_ScoreFormula ==
    sc_pc = "scored" =>
        /\ Len(sc_out.rows) = Len(sc_in.rows)
        /\ \A r \in 1..Len(sc_in.rows) :
            LET cell == Col(sc_out, Label.Impact_Score)[r]
            IN  IF InputPresent(Label.Poverty_Rate_Percent, r) /\ InputPresent(Label.Pct_Minority, r)
                THEN IsRoundedScore(cell, RefNormalized(Label.Poverty_Rate_Percent, r),
                                          RefNormalized(Label.Pct_Minority, r))
                ELSE cell = NaCell
        /\ (~HasCol(sc_in, Label.Poverty_Rate_Percent) \/ ~HasCol(sc_in, Label.Pct_Minority)) =>
                \A r \in 1..Len(sc_in.rows) : Col(sc_out, Label.Impact_Score)[r] = NaCell
        /\ ( /\ Len(sc_in.rows) = 1
             /\ InputPresent(Label.Poverty_Rate_Percent, 1)
             /\ InputPresent(Label.Pct_Minority, 1) ) =>
                Col(sc_out, Label.Impact_Score)[1] = Dec1Cell(0)
        /\ ( /\ Len(sc_in.rows) = 2
             /\ HasCol(sc_in, Label.Poverty_Rate_Percent)
             /\ HasCol(sc_in, Label.Pct_Minority)
             /\ Col(sc_in, Label.Poverty_Rate_Percent) = <<IntCell(10), IntCell(30)>>
             /\ Col(sc_in, Label.Pct_Minority)[1] = Col(sc_in, Label.Pct_Minority)[2]
             /\ InputPresent(Label.Pct_Minority, 1) ) =>
                Col(sc_out, Label.Impact_Score) = <<Dec1Cell(0), Dec1Cell(550)>>

\* C11 witness: two counties with poverty 10 and 30 and minority 100 and 10
\* have been scored 45.0 and 55.0.
C11_Witness ==
    /\ sc_pc = "scored"
    /\ HasCol(sc_in, Label.Poverty_Rate_Percent)
    /\ HasCol(sc_in, Label.Pct_Minority)
    /\ Col(sc_in, Label.Poverty_Rate_Percent) = <<IntCell(10), IntCell(30)>>
    /\ Col(sc_in, Label.Pct_Minority) = <<IntCell(100), IntCell(10)>>
    /\ Col(sc_out, Label.Impact_Score) = <<Dec1Cell(450), Dec1Cell(550)>>

\* the labels of the looked-up header that start with base + '__'
SuffixedHits ==
    SelectSeq(cols_found.cols,
              LAMBDA c : StartsWith(c, cols_found.base \o Label.sep))

\* C15: _find_col(df, base) returns base whenever base is a column label,
\* otherwise the first label in column order that starts with base + '__',
\* otherwise None; it never returns a label that was not produced by
\* deduplicating base, that is, the label of a column whose own name is not
\* base.
C15_FindColContract ==
    cols_pc = "found" =>
        /\ cols_found.result =
                IF cols_found.base \in Range(cols_found.cols)
                THEN cols_found.base
                ELSE IF SuffixedHits # <<>> THEN Head(SuffixedHits)
                ELSE NoneLabel
        /\ cols_found.result # NoneLabel =>
                \E k \in 1..Len(cols_found.cols) :
                    /\ cols_found.cols[k] = cols_found.result
                    /\ cols_found.names[k] = cols_found.base

-----------------------------------------------------------------------------
(* Claims about build_illinois_map                                         *)

\* a coordinate that is present and numeric
NumericCoordinate(c) == ~IsNA(c) /\ ~ToNumeric(c).nan

\* the rows of the caller's site table with a present, numeric lat and lon,
\* in order
KeptSites ==
    SelectSeq(bm_args.sites.rows, LAMBDA row :
        /\ NumericCoordinate(row[ColIndex(bm_args.sites, Label.lat)])
        /\ NumericCoordinate(row[ColIndex(bm_args.sites, Label.lon)]))

\* the text of a field of a row of the caller's site table, blank when the
\* column is absent or the value missing
GivenText(row, label) ==
    IF ~HasCol(bm_args.sites, label) THEN <<>>
    ELSE IF IsNA(row[ColIndex(bm_args.sites, label)]) THEN <<>>
    ELSE CellStr(row[ColIndex(bm_args.sites, label)])

\* the four site layers
SiteLayers == {"existing", "proposed", "denied", "inventory"}

\* the layer the classification rule gives a site of this identifier and
\* status
RuleLayer(id, status) ==
    IF \/ Contains(id, Text.INV)
       \/ Contains(Lower(status), Text.inventory)
       \/ Contains(Lower(status), Text.reserve)
    THEN "inventory"
    ELSE IF Lower(Strip(status)) = Text.existing THEN "existing"
    ELSE IF Lower(Strip(status)) = Text.denied THEN "denied"
    ELSE "proposed"

\* C12: every site placed on the map is placed in exactly one of the four
\* site layers: additional infrastructure when its site_id contains 'INV' or
\* its status contains 'inventory' or 'reserve' in any case, a test that is
\* made first; otherwise existing or denied when the trimmed lower-cased
\* status is that word, and proposed for anything else, blank included.
C12_SiteLayer ==
    bm_pc = "built" =>
        /\ Len(bm_out.markers) = Len(KeptSites)
        /\ \A k \in 1..Len(bm_out.markers) :
            /\ bm_out.markers[k].group \in SiteLayers
            /\ bm_out.markers[k].group =
                    RuleLayer(GivenText(KeptSites[k], Label.site_id),
                              GivenText(KeptSites[k], Label.layer))

\* a denied site whose identifier holds 'INV' went to the additional
\* infrastructure layer, next to an ' Existing ' site with a lower-case
\* 'inv' identifier that went to the existing layer
C12_Witness ==
    /\ bm_pc = "built"
    /\ Len(bm_out.markers) = 2
    /\ GivenText(KeptSites[1], Label.site_id) = Text.id_INV123
    /\ GivenText(KeptSites[1], Label.layer) = Text.denied
    /\ bm_out.markers[1].group = "inventory"
    /\ GivenText(KeptSites[2], Label.site_id) = Text.id_inv123
    /\ GivenText(KeptSites[2], Label.layer) = Text.st_Existing
    /\ bm_out.markers[2].group = "existing"

\* the caller passed no county table, or one without rows or columns
NoCounties ==
    \/ bm_args.counties = NoneTable
    \/ bm_args.counties.rows = <<>>
    \/ bm_args.counties.cols = <<>>

\* row r of the caller's county table holds a number under this label
CountyNumber(label, r) ==
    /\ HasCol(bm_args.counties, label)
    /\ ~IsNA(Col(bm_args.counties, label)[r])
    /\ ~ToNumeric(Col(bm_args.counties, label)[r]).nan

\* the metric has at least one numeric value: for the impact score, which is
\* computed from the poverty and minority columns, a county with both
MetricHasNumber(label) ==
    \E r \in 1..Len(bm_args.counties.rows) :
        IF label = Label.Impact_Score
        THEN CountyNumber(Label.Poverty_Rate_Percent, r) /\ CountyNumber(Label.Pct_Minority, r)
        ELSE CountyNumber(label, r)

\* the six metrics in their fixed order, and those with a numeric value
MetricOrder ==
    <<Label.Impact_Score, Label.Poverty_Rate_Percent, Label.Pct_Minority, Label.AQI_P90, Label.Ozone_Days,
      Label.PM25_Days>>
NumericMetrics == SelectSeq(MetricOrder, MetricHasNumber)

\* the legend title that belongs to the choropleth of a metric
LegendTitle(label) ==
    (CHOOSE ch \in {Choropleths[k] : k \in 1..Len(Choropleths)} :
        ch.value_col = label).title

\* C13: build_illinois_map returns one legend per choropleth layer it added
\* and none otherwise: a layer and its legend exist for a metric exactly when
\* its column has at least one numeric value, in the fixed order Impact_Score,
\* Poverty_Rate_Percent, Pct_Minority, AQI_P90, Ozone_Days, PM25_Days; with a
\* county table that is None or empty there is no county layer and no legend,
\* and the site and cluster layers are still built.
C13_LegendPerLayer ==
    bm_pc = "built" =>
        /\ Len(bm_out.county.legends) = Len(bm_out.county.choropleths)
        /\ \A k \in 1..Len(bm_out.county.choropleths) :
                bm_out.county.legends[k] =
                    LegendTitle(bm_out.county.choropleths[k])
        /\ bm_out.county.choropleths =
                IF NoCounties THEN <<>> ELSE NumericMetrics
        /\ bm_out.county.hover = ~NoCounties
        /\ bm_out.clusters = ImpactClusters
        /\ Len(bm_out.markers) = Len(KeptSites)

\* a county table with a poverty and a minority rate, an AQI_P90 column of
\* text and numeric Ozone_Days gave four layers and four legends, and none
\* for AQI_P90 and the absent PM25_Days
C13_Witness ==
    /\ bm_pc = "built"
    /\ HasCol(bm_args.counties, Label.AQI_P90)
    /\ ~HasCol(bm_args.counties, Label.PM25_Days)
    /\ bm_out.county.choropleths =
            <<Label.Impact_Score, Label.Poverty_Rate_Percent, Label.Pct_Minority, Label.Ozone_Days>>
    /\ Len(bm_out.county.legends) = 4
    /\ Len(bm_out.markers) = 1

\* C18: build_illinois_map drops every site record whose lat or lon is
\* missing or not numeric and places exactly one marker for each remaining
\* record, at its coordinates, and none for a dropped record; no marker has a
\* missing or non-numeric coordinate.
C18_MarkerPerLocatedSite ==
    bm_pc = "built" =>
        /\ Len(bm_out.df.rows) = Len(KeptSites)
        /\ Len(bm_out.markers) = Len(KeptSites)
        /\ \A k \in 1..Len(bm_out.markers) :
            /\ \A c \in 1..2 :
                /\ bm_out.markers[k].location[c].kind \in {"float", "dec1"}
                /\ ~ToNumeric(bm_out.markers[k].location[c]).nan
            /\ ToNumeric(bm_out.markers[k].location[1]) =
                    ToNumeric(KeptSites[k][ColIndex(bm_args.sites, Label.lat)])
            /\ ToNumeric(bm_out.markers[k].location[2]) =
                    ToNumeric(KeptSites[k][ColIndex(bm_args.sites, Label.lon)])
            /\ bm_out.markers[k].tooltip =
                    _safe_text(RowGet(bm_args.sites, KeptSites[k], Label.name))

\* of two sites, the one whose lat is the text 'x' was dropped and the one
\* at ('41', 89.5) got the only marker
C18_Witness ==
    /\ bm_pc = "built"
    /\ Len(bm_args.sites.rows) = 2
    /\ bm_args.sites.rows[1][ColIndex(bm_args.sites, Label.lat)] =
            StrCell(Text.not_a_number)
    /\ Len(bm_out.markers) = 1
    /\ bm_out.markers[1].location = <<FloatCell(41), Dec1Cell(895)>>

\* C19: build_illinois_map and _compute_impact_score leave their input
\* tables unchanged: after the call the caller's site table and county table
\* have the columns and values they had before (no column added, no layer,
\* lat, lon or GEOID value rewritten, no row removed); every change is made
\* on a copy.
C19_InputsUnchanged ==
    bm_pc \in {"built", "raised"} =>
        /\ bm_sites = bm_args.sites
        /\ bm_counties = bm_args.counties
        /\ ~NoCounties =>
                ScoreCall(Frame("counties", bm_args.counties)).arg_after =
                    bm_args.counties

\* a map was built from a county table with a 'name' column and no 'NAME'
\* or Impact_Score column: the impact layer exists, the cleaned site table
\* differs from the caller's, and the caller's tables are as they were
C19_Witness ==
    /\ bm_pc = "built"
    /\ HasCol(bm_args.counties, Label.name)
    /\ ~HasCol(bm_args.counties, Label.NAME)
    /\ Len(bm_out.county.choropleths) > 0
    /\ bm_out.county.choropleths[1] = Label.Impact_Score
    /\ Label.NAME \in {bm_out.county.tooltip[k] :
                            k \in 1..Len(bm_out.county.tooltip)}
    /\ bm_out.df # bm_args.sites
    /\ ~HasCol(bm_counties, Label.Impact_Score)
    /\ ~HasCol(bm_counties, Label.NAME)
    /\ bm_sites = bm_args.sites

\* the descriptive free-text fields of a marker popup
FreeTextFields ==
    {Label.name, Label.surroundings_snapshot,
     Label.community_signals, Label.stressors, Label.sources}

\* C16: for every site row, each descriptive free-text field of the marker
\* popup (name, surroundings_snapshot, community_signals, stressors, sources)
\* whose value is missing (None, NaN or any pandas missing value) is rendered
\* as the empty string, never as 'nan', 'None' or another missing-value
\* token.
C16_MissingTextBlank ==
    bm_pc = "built" =>
        \A k \in 1..Len(bm_out.markers) :
            \A f \in 1..Len(bm_out.markers[k].popup) :
                (/\ bm_out.markers[k].popup[f][1] \in FreeTextFields
                 /\ IsNA(RowGet(bm_args.sites, KeptSites[k],
                                bm_out.markers[k].popup[f][1])))
                    => bm_out.markers[k].popup[f][2] = <<>>

-----------------------------------------------------------------------------
(* Specifications of the pure helpers                                      *)

NextFips ==
    \/ CoerceFips /\ UNCHANGED <<colsVars, scoreVars, pipeVars, mapVars>>
    \/ CoerceFipsAgain /\ UNCHANGED <<colsVars, scoreVars, pipeVars, mapVars>>

InitFipsBench == InitFips /\ IdleCols /\ IdleScore /\ IdlePipe /\ IdleMap

SpecFips == InitFipsBench /\ [][NextFips]_vars

NextCols ==
    \/ MakeUnique /\ UNCHANGED <<fipsVars, scoreVars, pipeVars, mapVars>>
    \/ FindCol /\ UNCHANGED <<fipsVars, scoreVars, pipeVars, mapVars>>

InitColsBench == InitCols /\ IdleFips /\ IdleScore /\ IdlePipe /\ IdleMap

SpecCols == InitColsBench /\ [][NextCols]_vars

NextScore ==
    \/ ApplyMinmax /\ UNCHANGED <<fipsVars, colsVars, pipeVars, mapVars>>
    \/ ComputeImpactScore /\ UNCHANGED <<fipsVars, colsVars, pipeVars, mapVars>>

InitScoreBench == InitScore /\ IdleFips /\ IdleCols /\ IdlePipe /\ IdleMap

SpecScore == InitScoreBench /\ [][NextScore]_vars

NextMap ==
    BuildIllinoisMap /\ UNCHANGED <<fipsVars, colsVars, scoreVars, pipeVars>>

InitMapBench == InitMap /\ IdleFips /\ IdleCols /\ IdleScore /\ IdlePipe

SpecMap == InitMapBench /\ [][NextMap]_vars

-----------------------------------------------------------------------------
(* Specification of a run of either entry point                            *)

Init == InitPipe /\ IdleFips /\ IdleCols /\ IdleScore /\ IdleMap

Next ==
    \/ ReadSites /\ UNCHANGED <<fipsVars, colsVars, scoreVars, mapVars>>
    \/ ReadCounties /\ UNCHANGED <<fipsVars, colsVars, scoreVars, mapVars>>
    \/ ReadStats /\ UNCHANGED <<fipsVars, colsVars, scoreVars, mapVars>>
    \/ NormalizeGeoid /\ UNCHANGED <<fipsVars, colsVars, scoreVars, mapVars>>
    \/ SimplifyGeometry /\ UNCHANGED <<fipsVars, colsVars, scoreVars, mapVars>>
    \/ MergeBase /\ UNCHANGED <<fipsVars, colsVars, scoreVars, mapVars>>
    \/ AqiStep /\ UNCHANGED <<fipsVars, colsVars, scoreVars, mapVars>>
    \/ LeadStep /\ UNCHANGED <<fipsVars, colsVars, scoreVars, mapVars>>
    \/ XlsbStep /\ UNCHANGED <<fipsVars, colsVars, scoreVars, mapVars>>
    \/ BuildMap /\ UNCHANGED <<fipsVars, colsVars, scoreVars, mapVars>>
    \/ SaveMap /\ UNCHANGED <<fipsVars, colsVars, scoreVars, mapVars>>
    \/ RenderMap /\ UNCHANGED <<fipsVars, colsVars, scoreVars, mapVars>>

Spec == Init /\ [][Next]_vars

-----------------------------------------------------------------------------
(* Claims about the reconciliation pipeline                                *)

\* the county table has been through every join of the run
Reconciled ==
    /\ pc \in {"build", "save", "render", "done"}
    /\ counties_layer # NoneTable

\* C4: after the whole pipeline every county identifier of the boundary file
\* appears in exactly one row of the county table, whatever the right-hand
\* tables hold.
C4_OneRowPerCounty ==
    Reconciled =>
        \A g \in Range(Col(counties, Label.GEOID)) :
            Cardinality({r \in 1..Len(counties_layer.rows) :
                            Col(counties_layer, Label.GEOID)[r] = g}) = 1

\* the step that follows an optional step
FollowingStep(step) ==
    CASE step = "aqi" -> "lead"
      [] step = "lead" -> "xlsb"
      [] step = "xlsb" -> "build"

\* the optional source cannot be used: its file is missing, an expected
\* column is missing, its data is malformed, or pyxlsb is missing
SourceIsBad(src) ==
    CASE src.step = "aqi" ->
            \/ ~src.file.exists
            \/ \E c \in {Label.State, Label.County, Label.Year} \cup Range(AqiRawLabels) :
                    ~HasCol(src.file.table, c)
            \/ ~\E r \in 1..Len(src.file.table.rows) :
                    /\ Lower(Strip(CellStr(Col(src.file.table, Label.State)[r])))
                            = Text.illinois
                    /\ ~ToNumeric(Col(src.file.table, Label.Year)[r]).nan
      [] src.step = "lead" ->
            \/ ~src.file.exists
            \/ ~HasCol(src.file.table, Label.GeographyID)
      [] src.step = "xlsb" ->
            \/ ~src.file.pyxlsb
            \/ ~src.file.exists
            \/ Len(src.file.rows) < 6
            \/ \E base \in {Label.state_abbr, Label.county_id, Label.cons_raw} :
                    StrCell(base) \notin Range(src.file.rows[5])

\* what one step of the run does when it is an optional step
OptionalStepIsolated ==
    pc \in {"aqi", "lead", "xlsb"} =>
        /\ pc' = FollowingStep(pc)
        /\ source'.step = pc
        /\ IF SourceIsBad(source')
           THEN /\ counties_layer' = counties_layer
                /\ Len(warnings') = Len(warnings) + 1
                /\ SubSeq(warnings', 1, Len(warnings)) = warnings
                /\ warnings'[Len(warnings')].source = pc
           ELSE warnings' = warnings

\* C5: an optional step (AQI, LEAD, XLSB) whose source is missing or
\* malformed leaves the county table exactly as it was, adds one warning
\* naming the step, and hands over to the following step; a step whose source
\* is usable adds no warning; no optional step ends the run, so the build-map
\* step is always reached.
C5_OptionalFailureIsolated ==
    [][OptionalStepIsolated]_vars

\* C5 witness: the build step is reached after the LEAD step alone failed:
\* the AQI columns merged before it and the XLSB column merged after it are
\* there, no LEAD column is.
C5_Witness ==
    /\ pc = "build"
    /\ Len(warnings) = 1
    /\ warnings[1].source = "lead"
    /\ HasCol(counties_layer, Label.AQI_P90)
    /\ HasCol(counties_layer, Label.Elec)
    /\ ~HasCol(counties_layer, Label.Energy_Burden)

SitesLackLatLon ==
    /\ disk.sites.exists
    /\ ~HasCol(disk.sites.table, Label.lat) \/ ~HasCol(disk.sites.table, Label.lon)

MandatoryFileMissing == ~disk.sites.exists \/ ~disk.counties \/ ~disk.stats

\* the first mandatory file the run fails to find
FirstMissingPath ==
    IF ~disk.sites.exists THEN IL_SITES_CSV
    ELSE IF ~disk.counties THEN IL_COUNTY_BOUNDARIES_SHP
    ELSE IL_COUNTY_STATS_ENHANCED_CSV

C7_KeysNormalized ==
    raw_keys.counties # <<>> =>
        /\ \A i \in 1..Len(counties.rows) :
            Col(counties, Label.GEOID)[i]
                = StrCell(_coerce_fips(raw_keys.counties[i]))
        /\ \A i \in 1..Len(county_stats.rows) :
            Col(county_stats, Label.GEOID)[i]
                = StrCell(_coerce_fips(raw_keys.stats[i]))

\* the AQI try block has just run on the file source.file
AqiStepDone == source.step = "aqi" /\ pc = "lead"

\* a row of the AQI file that is an Illinois row
IsIllinoisRow(row) ==
    Lower(Strip(CellStr(row[ColIndex(source.file.table, Label.State)])))
        = Text.illinois

\* the numeric Year values of the Illinois rows of the AQI file, and the
\* greatest of them
IllinoisYears ==
    { ToNumeric(x[ColIndex(source.file.table, Label.Year)]) :
        x \in {row \in Range(source.file.table.rows) : IsIllinoisRow(row)} }
    \ {NaN}
MaxIllinoisYear ==
    CHOOSE y \in IllinoisYears : \A z \in IllinoisYears : ~RatLess(y, z)

\* the join key of a row of the AQI file
AqiKey(row) ==
    Upper(Strip(Replace(
        CellStr(row[ColIndex(source.file.table, Label.County)]),
        Text.CountySuffix, <<>>)))

\* the 90th-percentile values the AQI file holds for the county with this
\* name key in the Illinois rows of this year
AqiValues(key, year) ==
    { row[ColIndex(source.file.table, Label.P90_raw)] :
        row \in { x \in Range(source.file.table.rows) :
                    /\ IsIllinoisRow(x)
                    /\ ToNumeric(x[ColIndex(source.file.table, Label.Year)]) = year
                    /\ AqiKey(x) = key } }

\* every county of the county table carries the AQI value of its Illinois
\* row of this year, or a missing value when there is none
JoinedAqiOf(year) ==
    /\ HasCol(counties_layer, Label.AQI_P90)
    /\ warnings = <<>> \/ warnings[Len(warnings)].source # "aqi"
    /\ \A r \in 1..Len(counties_layer.rows) :
            IF AqiValues(Col(counties_layer, Label.NAME_clean)[r].s, year) = {}
            THEN Col(counties_layer, Label.AQI_P90)[r] = NaCell
            ELSE Col(counties_layer, Label.AQI_P90)[r] \in
                    AqiValues(Col(counties_layer, Label.NAME_clean)[r].s, year)

\* the AQI step failed as an optional source: no AQI column, one warning
AqiSkipped ==
    /\ \A k \in 1..Len(AqiRename) : ~HasCol(counties_layer, AqiRename[k][2])
    /\ ~HasCol(counties_layer, Label.County_clean)
    /\ warnings # <<>>
    /\ warnings[Len(warnings)].source = "aqi"

\* C14 as stated: the AQI step keeps only the rows whose State is Illinois
\* and whose Year equals the greatest numeric Year among those rows, before
\* joining on the name key; when the Illinois rows hold no numeric Year (or
\* the Year column is absent) the step fails as an optional source: no AQI
\* column is added, a warning is emitted, and the run continues.
C14_LatestYearRows ==
    AqiStepDone =>
        IF SourceIsBad(source) THEN AqiSkipped
        ELSE JoinedAqiOf(MaxIllinoisYear)

\* C14 as amended: the rows kept are the Illinois rows whose Year equals the
\* integer part of the greatest numeric Year (int(max)), which is the
\* greatest Year itself when that is a whole number; the failure handling
\* is as stated.
C14_LatestWholeYearRows ==
    AqiStepDone =>
        IF SourceIsBad(source) THEN AqiSkipped
        ELSE JoinedAqiOf(Rat(IntPart(MaxIllinoisYear), 1))

\* the AQI file holds Cook County for the years 2 and 2.5: the county table
\* carries the value of year 2
C14_Witness ==
    /\ AqiStepDone
    /\ ~SourceIsBad(source)
    /\ MaxIllinoisYear = Rat(5, 2)
    /\ HasCol(counties_layer, Label.AQI_P90)
    /\ \E r \in 1..Len(counties_layer.rows) :
            Col(counties_layer, Label.AQI_P90)[r] = IntCell(40)

\* the county table has been through at least the base join
AfterAJoin ==
    pc \in {"aqi", "lead", "xlsb", "build", "save", "render", "done"}

\* C17: in every state of the reconciliation pipeline that follows a join
\* (the base join and each of the AQI, LEAD and XLSB joins, applied or
\* skipped in any combination) the column labels of the county table are
\* pairwise distinct.
C17_DistinctLabelsAfterJoin ==
    AfterAJoin =>
        \A i, j \in 1..Len(counties_layer.cols) :
            counties_layer.cols[i] = counties_layer.cols[j] => i = j

=============================================================================
